---- MODULE Spec2Model ----
(***************************************************************************)
(* A model of the adapter registry of go-core: the factory table, the      *)
(* instance cache and the construction lifecycle of                        *)
(* Registry.newAdapterWithContext (src/registry.go), the dependency        *)
(* resolver (src/dep.go) and the config loader (src/meta.go).              *)
(*                                                                         *)
(* An adapter instance is a heap cell; its identity is its index in heap.  *)
(* Every caller is a thread with a stack of frames, one frame per          *)
(* newAdapterWithContext activation; a dependency is constructed by        *)
(* pushing a frame.  A step is atomic when it touches the shared state     *)
(* (factory table, cache, heap) at most once under one lock acquisition.   *)
(***************************************************************************)
EXTENDS Naturals, Sequences, FiniteSets, TLC

VARIABLES
    world,        \* the config tree installed by SetSearchPath (NoWorld before)
    factories,    \* Registry.factories: lower-case adapter id -> kind produced
    adapters,     \* Registry.adapters: cache key -> instance
    heap,         \* the adapter instances ever stored, by identity
    stack,        \* per caller: the activations of newAdapterWithContext
    result,       \* per caller: what its last NewAdapter returned
    gets,         \* number of NewAdapter calls issued so far
    returned,     \* history: every (request, instance) a get returned without error
    factoryCalls, \* history: cache key -> number of zeroFac() invocations
    inserts,      \* history: cache key -> number of cache inserts
    reuses,       \* history: cache key -> number of gets that ended in a cache hit
    lookups,      \* history: the SearchMap calls made so far, each with its outcome
    batch,        \* the running LoadAllAdaptersFrom call of the caller, if any
    mu,           \* Registry.mu of the default registry, and what went wrong with it
    isolated      \* a Registry other than the default one: its three fields

vars == << world, factories, adapters, heap, stack, result, gets, returned,
           factoryCalls, inserts, reuses, lookups, batch, mu, isolated >>

----------------------------------------------------------------------------
(* Bounds *)

\* NewAdapter calls issued by external callers in one behaviour.
MaxGets == 3

\* NewAdapter calls issued in one behaviour of the concurrent specification.
MaxConcGets == 2

\* NewAdapter calls issued in one behaviour of the configuration specification.
MaxCfgGets == 1

\* NewAdapter calls issued in one behaviour of the loading specification.
MaxLoadGets == 1

\* NewAdapter calls issued in one behaviour of the letter-case specification.
MaxCaseGets == 4
MaxLookups == 2
MaxLoadAlls == 2
MaxBatches == 1
MaxCycleGets == 2
MaxLoads == 2
MaxOverrideGets == 1
MaxPlainGets == 2
MaxInfers == 1
MaxMerges == 1
MaxArgsGets == 1

\* The gets of the field specification.
MaxFieldGets == 1

\* The gets issued on the isolated registry.
MaxIsoGets == 2

\* The gets of each of the two callers of the item specification.
MaxItemGets == 2

\* The gets of the specification of arguments that name no item.
MaxNoItemGets == 3

\* The gets of the cache specification.
MaxCacheGets == 3

\* The calls of validateRequiredDeps of the validation specification.
MaxValidates == 1

\* The gets of the order specification.
MaxOrderGets == 2
MaxDepth == 6

Threads == {"t1", "t2"}

----------------------------------------------------------------------------
(* Small helpers *)

EmptyMap == [k \in {} |-> k]

NilMap == [isNil |-> TRUE, m |-> EmptyMap]

MkMap(m) == [isNil |-> FALSE, m |-> m]

Count(f, k) == IF k \in DOMAIN f THEN f[k] ELSE 0

Inc(f, k) == [x \in DOMAIN f \cup {k} |-> Count(f, x) + (IF x = k THEN 1 ELSE 0)]

Put(f, k, v) == [x \in DOMAIN f \cup {k} |-> IF x = k THEN v ELSE f[x]]

Last(s) == s[Len(s)]

Front(s) == SubSeq(s, 1, Len(s) - 1)

----------------------------------------------------------------------------
(* The adapters registered by the callers.  They are the test adapters of  *)
(* the repository (Adp, ListerAdp, ChildAdp); Adp.ChildProvider carries an *)
(* adapter-id tag, Adp has a first-use hook and ListerAdp a name-keyed     *)
(* dependency sink, so that every branch of the lifecycle is exercised.    *)

Kinds == {"adp", "lister-adp", "child-adp"}

Configurable(kind) == kind \in {"adp", "lister-adp"}

ItemConfigurable(kind) == kind = "adp"

\* ItemConfigPtr returns the pointer ConfigPtr returns (the overlay layout).
SameTarget(kind) == kind = "adp"

\* PlainAdp is a lister without SetWorkDir: it takes no working context.
\* Adapters whose types refer to each other: SelfAdp has a field tagged with
\* its own id, NodeAdp and PeerAdp have a field tagged with the other's id.
CycleKinds == {"self-adp", "node-adp", "peer-adp"}

WorkDirSettable(kind) == kind \in {"adp", "lister-adp", "child-adp"} \cup CycleKinds

Depender(kind) == kind = "lister-adp"

Hydrater(kind) == kind = "adp"

\* The struct fields of a kind that take part in injection: those of Adp,
\* with ChildProvider tagged with an adapter id, the form findStructDeps
\* (dep.go:191-207) infers a dependency from; Adp of the tests tags both
\* fields "required" and an adapter Hydrate hook is added.  ContextPath is
\* the string field SetContext fills; Embedded stands for a field promoted
\* from an unexported embedded struct, which reflect finds by name and
\* reports as not settable.
Fields(kind) ==
    IF kind = "adp"
    THEN << [name |-> "ListerProvider", tag |-> << "required" >>, exported |-> TRUE, type |-> "Lister"],
            [name |-> "ChildProvider", tag |-> << "child-adp" >>, exported |-> TRUE, type |-> "Lister"],
            [name |-> "ContextPath", tag |-> << >>, exported |-> TRUE, type |-> "string"],
            [name |-> "Embedded", tag |-> << >>, exported |-> FALSE, type |-> "Lister"] >>
    ELSE IF kind \in CycleKinds
    THEN << [name |-> "Next", exported |-> TRUE, type |-> "Node",
             tag |-> << CASE kind = "self-adp" -> "self-adp"
                          [] kind = "node-adp" -> "peer-adp"
                          [] OTHER -> "node-adp" >>] >>
    ELSE << >>

FieldNames(kind) == {Fields(kind)[i].name : i \in 1..Len(Fields(kind))}

FieldByName(kind, n) == CHOOSE f \in {Fields(kind)[i] : i \in 1..Len(Fields(kind))} : f.name = n

\* An assignability test that lets every dependency into every field.
AssignableAlways(kind, type) == TRUE

\* reflect's AssignableTo: the kinds with a List method satisfy core.Lister.
AssignableTo(kind, type) ==
    \/ type = "Lister" /\ kind \in {"lister-adp", "child-adp", "plain-adp"}
    \/ type = "Node" /\ kind \in CycleKinds

\* The fields of the struct a kind decodes its spec payload into.
SpecFields(kind) ==
    CASE kind = "adp" -> {"foo", "label"}
      [] kind = "lister-adp" -> {"note"}
      [] OTHER -> {}

\* ZeroFactory: a zero-valued instance; the ghost fields count lifecycle steps.
Zero(kind, key) ==
    [kind |-> kind,
     key |-> key,
     Spec |-> [f \in SpecFields(kind) |-> ""],
     ItemSpec |-> [f \in SpecFields(kind) |-> ""],
     WorkDir |-> "",
     fields |-> [n \in FieldNames(kind) |-> 0],
     named |-> EmptyMap,
     stage |-> "zero",
     failed |-> "",
     failedField |-> "",
     nDecode |-> 0,
     nItemDecode |-> 0,
     nValidate |-> 0,
     nHydrate |-> 0]

----------------------------------------------------------------------------
(* Config documents *)

DepRef(adapter) == [Adapter |-> adapter, Name |-> "", Args |-> << >>]

\* A spec payload: absent (len(RawSpec) = 0) or a JSON object; a value the
\* target field cannot hold is Mistyped.
NoSpec == [empty |-> TRUE, obj |-> EmptyMap]

Raw(obj) == [empty |-> FALSE, obj |-> obj]

Mistyped == "<mistyped>"

\* A config tree is the tree of testdata with these parts left open: the
\* dependencies adp.json, items/inst1.json and lister-adp.json declare, the
\* spec payloads of adp.json and items/inst1.json, the files that are not
\* valid JSON (broken), further files in other directories (extra) and the
\* files removed after the tree was indexed (removed); with the tree goes the
\* table CORE_CONTEXT_MAP held when the process started (contextMap).
NoWorld ==
    [set |-> FALSE, adpDeps |-> NilMap, inst1Deps |-> NilMap, listerDeps |-> NilMap,
     adpSpec |-> NoSpec, inst1Spec |-> NoSpec, broken |-> {}, extra |-> {}, removed |-> {},
     contextMap |-> EmptyMap]

TestTree ==
    [set |-> TRUE,
     adpDeps |-> MkMap([ListerProvider |-> DepRef("lister-adp")]),
     inst1Deps |-> NilMap,
     listerDeps |-> NilMap,
     adpSpec |-> Raw([foo |-> "global-foo"]),
     inst1Spec |-> Raw([foo |-> "item-foo", label |-> "instance-1"]),
     broken |-> {}, extra |-> {}, removed |-> {}, contextMap |-> EmptyMap]

AdpDepsOptions ==
    { TestTree.adpDeps,
      MkMap([ListerProvider |-> DepRef("lister-adp"), ChildProvider |-> DepRef("lister-adp")]),
      NilMap }

Inst1DepsOptions == { NilMap, MkMap([ChildProvider |-> DepRef("lister-adp")]) }

\* The trees of the sequential specification: every combination of the
\* declared dependencies of adp, a tree whose adp payload does not decode,
\* and a tree in which lister-adp declares a dependency no field takes.
Worlds ==
    {[TestTree EXCEPT !.adpDeps = a, !.inst1Deps = i] : a \in AdpDepsOptions, i \in Inst1DepsOptions}
    \cup {[TestTree EXCEPT !.adpSpec = Raw([foo |-> Mistyped])]}
    \cup {[TestTree EXCEPT !.listerDeps = MkMap([extra |-> DepRef("child-adp")])]}

\* The trees of the concurrent specification.
ConcWorlds == {[TestTree EXCEPT !.inst1Deps = i] : i \in Inst1DepsOptions}

\* The trees of the loading specification: a file that is not valid JSON, a
\* file removed after indexing, and files that share a basename.
LoadWorlds ==
    {[TestTree EXCEPT !.broken = b, !.removed = r, !.extra = e] :
        b \in {{}, {"adp"}, {"items/inst1"}},
        r \in {{}, {"adp"}, {"items/inst1"}},
        e \in {{}, {"other/inst1"}, {"x/child-adp"}, {"x/child-adp", "y/child-adp"}}}

\* The trees of the configuration specification: every pair of payloads over
\* the fields of Adp.Spec.
PayloadValues == {"a", "b", Mistyped}

Payloads ==
    {NoSpec} \cup {Raw(o) : o \in UNION {[D -> PayloadValues] : D \in SUBSET {"foo", "label"}}}

CfgWorlds == {[TestTree EXCEPT !.adpSpec = a, !.inst1Spec = i] : a \in Payloads, i \in Payloads}

\* The files of testdata, and the further files a tree may hold: a second
\* inst1.json, two configs of child-adp, and an adp.json below the root.
BaseKeys == {"adp", "lister-adp", "items/inst1", "items/inst2"}

ExtraKeys == {"other/inst1", "other/adp", "peer-adp", "x/child-adp", "y/child-adp",
              "x/inst3", "y/inst3"}

\* The content of the file with full key k.
FileAt(w, k) ==
    CASE k = "adp" ->
           [dir |-> "/cfg", base |-> "adp", name |-> "", adapter |-> "adp",
            dependencies |-> w.adpDeps, spec |-> w.adpSpec, context |-> "ctx-adp"]
      [] k = "lister-adp" ->
           [dir |-> "/cfg", base |-> "lister-adp", name |-> "lister-adp", adapter |-> "lister-adp",
            dependencies |-> w.listerDeps, spec |-> Raw([note |-> "dummy provider config"]),
            context |-> "ctx-lister"]
      [] k = "items/inst1" ->
           [dir |-> "/cfg/items", base |-> "inst1", name |-> "", adapter |-> "adp",
            dependencies |-> w.inst1Deps, spec |-> w.inst1Spec, context |-> "ctx-inst1"]
      [] k = "items/inst2" ->
           [dir |-> "/cfg/items", base |-> "inst2", name |-> "inst2", adapter |-> "adp",
            dependencies |-> NilMap, spec |-> Raw([label |-> "instance-2"]), context |-> "ctx-inst2"]
      [] k = "other/inst1" ->
           [dir |-> "/cfg/other", base |-> "inst1", name |-> "", adapter |-> "ADP",
            dependencies |-> NilMap, spec |-> NoSpec, context |-> "ctx-inst1"]
      [] k = "other/adp" ->
           [dir |-> "/cfg/other", base |-> "adp", name |-> "", adapter |-> "adp",
            dependencies |-> NilMap, spec |-> Raw([label |-> "other-adp"]),
            context |-> "ctx-other"]
      [] k = "peer-adp" ->
           [dir |-> "/cfg", base |-> "peer-adp", name |-> "", adapter |-> "peer-adp",
            dependencies |-> NilMap, spec |-> NoSpec, context |-> "ctx-peer"]
      [] k = "x/child-adp" ->
           [dir |-> "/cfg/x", base |-> "child-adp", name |-> "", adapter |-> "child-adp",
            dependencies |-> NilMap, spec |-> NoSpec, context |-> "ctx-x"]
      [] k = "x/inst3" ->
           [dir |-> "/cfg/x", base |-> "inst3", name |-> "inst3", adapter |-> "adp",
            dependencies |-> NilMap, spec |-> Raw([label |-> "x-inst3"]), context |-> ""]
      [] k = "y/inst3" ->
           [dir |-> "/cfg/y", base |-> "inst3", name |-> "inst3", adapter |-> "adp",
            dependencies |-> NilMap, spec |-> Raw([label |-> "y-inst3"]), context |-> ""]
      [] OTHER ->
           [dir |-> "/cfg/y", base |-> "child-adp", name |-> "", adapter |-> "child-adp",
            dependencies |-> NilMap, spec |-> NoSpec, context |-> "/abs"]

\* The .json files the walk of the config root found, by full key; exists
\* and decodes say what a later read of the file gives.
Files(w) ==
    [k \in BaseKeys \cup w.extra |->
        [dir |-> FileAt(w, k).dir, base |-> FileAt(w, k).base,
         exists |-> k \notin w.removed, decodes |-> k \notin w.broken,
         name |-> FileAt(w, k).name, adapter |-> FileAt(w, k).adapter,
         dependencies |-> FileAt(w, k).dependencies,
         spec |-> FileAt(w, k).spec, context |-> FileAt(w, k).context]]

\* The override table filled from CORE_CONTEXT_MAP at start-up.
contextMap(w) == w.contextMap

\* The directories of the tree and the relative paths a context may name.
Dirs == {"/cfg", "/cfg/items", "/cfg/other", "/cfg/x", "/cfg/y"}

RelPaths == {"ctx-adp", "ctx-lister", "ctx-inst1", "ctx-inst2", "ctx-other", "ctx-peer",
             "ctx-x", "ctx-env"}

\* filepath.Clean on the paths in use: an empty path becomes ".", a leading
\* "./" is dropped.
Clean(path) ==
    CASE path = "" -> "."
      [] path = "./ctx-env" -> "ctx-env"
      [] OTHER -> path

\* filepath.Join of a directory and a relative path, which cleans the result.
Join(dir, path) == IF path = "." THEN dir ELSE dir \o "/" \o path

\* The process's current directory, somewhere outside the config root.
Cwd == "/home/user"

\* filepath.IsAbs on the paths in use.
IsAbs(path) ==
    path \in {"/abs", Cwd} \cup Dirs \cup {Join(d, r) : d \in Dirs \cup {Cwd}, r \in RelPaths}

\* filepath.Abs: a relative path is joined to the current directory.
Abs(path) == IF IsAbs(path) THEN Clean(path) ELSE Join(Cwd, Clean(path))

\* SearchMap.Full and SearchMap.Short as NewSearchMapWithFS builds them: a
\* file is named by its full key, which stands for its absolute path.
Full(files) == [k \in DOMAIN files |-> k]

\* An index whose short-key table keeps one path for a basename.
ShortOverwrite(files) ==
    [b \in {files[k].base : k \in DOMAIN files} |->
        {CHOOSE k \in DOMAIN files : files[k].base = b}]

Short(files) ==
    [b \in {files[k].base : k \in DOMAIN files} |-> {k \in DOMAIN files : files[k].base = b}]

\* A resolution that consults the short-key table in front of the full keys.
ResolveShortFirst(full, short, name) ==
    IF name \in DOMAIN short /\ Cardinality(short[name]) > 1
    THEN [err |-> "ambiguous", path |-> "", candidates |-> short[name]]
    ELSE IF name \in DOMAIN short
    THEN [err |-> "", path |-> CHOOSE k \in short[name] : TRUE, candidates |-> {}]
    ELSE IF name \in DOMAIN full THEN [err |-> "", path |-> full[name], candidates |-> {}]
    ELSE [err |-> "notexist", path |-> "", candidates |-> {}]

\* SearchMap.Resolve: full key first, then short key; candidates are the
\* paths the ambiguity error joins into its message.
ResolveIn(full, short, name) ==
    IF name \in DOMAIN full THEN [err |-> "", path |-> full[name], candidates |-> {}]
    ELSE IF name \notin DOMAIN short \/ short[name] = {}
    THEN [err |-> "notexist", path |-> "", candidates |-> {}]
    ELSE IF Cardinality(short[name]) > 1
    THEN [err |-> "ambiguous", path |-> "", candidates |-> short[name]]
    ELSE [err |-> "", path |-> CHOOSE k \in short[name] : TRUE, candidates |-> {}]

Resolve(w, name) == ResolveIn(Full(Files(w)), Short(Files(w)), name)

NilMeta ==
    [isNil |-> TRUE, Name |-> "", Adapter |-> "", Dependencies |-> NilMap,
     RawSpec |-> NoSpec, WorkDir |-> ""]

\* Load, lines 136-143: the decoded header; a blank name becomes the basename.
Decoded(file) ==
    [isNil |-> FALSE, Name |-> IF file.name = "" THEN file.base ELSE file.name,
     Adapter |-> file.adapter, Dependencies |-> file.dependencies,
     RawSpec |-> file.spec, WorkDir |-> file.context]

\* Load, lines 145-148: the override by the header's name.
Overridden(h, cmap) ==
    IF h.Name \in DOMAIN cmap THEN [h EXCEPT !.WorkDir = Clean(cmap[h.Name])] ELSE h

\* A context made absolute from the process's current directory.
AnchoredAtCwd(h, dir) ==
    IF h.WorkDir # "" /\ ~IsAbs(h.WorkDir) THEN [h EXCEPT !.WorkDir = Clean(Abs(@))] ELSE h

\* Load, lines 150-158: a relative context is anchored at the file's directory.
Anchored(h, dir) ==
    IF h.WorkDir # "" /\ ~IsAbs(h.WorkDir) THEN [h EXCEPT !.WorkDir = Clean(Abs(Join(dir, @)))]
    ELSE h

\* Load, lines 131-160: a file that is gone gives an error that wraps
\* os.ErrNotExist.
\* A load that looks the override up after the context was made absolute.
LoadFileOverrideLast(file, cmap) ==
    IF ~file.exists THEN [err |-> "notexist", meta |-> NilMeta]
    ELSE IF ~file.decodes THEN [err |-> "decode", meta |-> NilMeta]
    ELSE [err |-> "", meta |-> Overridden(Anchored(Decoded(file), file.dir), cmap)]

LoadFile(file, cmap) ==
    IF ~file.exists THEN [err |-> "notexist", meta |-> NilMeta]
    ELSE IF ~file.decodes THEN [err |-> "decode", meta |-> NilMeta]
    ELSE [err |-> "", meta |-> Anchored(Overridden(Decoded(file), cmap), file.dir)]

LoadResolved(files, r, cmap) ==
    IF r.err # "" THEN [err |-> r.err, meta |-> NilMeta] ELSE LoadFile(files[r.path], cmap)

\* SearchMap.Load: resolve, read, decode and post-process.
Load(w, name) == LoadResolved(Files(w), Resolve(w, name), contextMap(w))

\* The full keys in the byte order sort.Strings puts them in.
KeyOrder ==
    << "adp", "items/inst1", "items/inst2", "lister-adp", "other/adp", "other/inst1",
       "peer-adp", "x/child-adp", "x/inst3", "y/child-adp", "y/inst3" >>

Rank(k) == CHOOSE i \in 1..Len(KeyOrder) : KeyOrder[i] = k

RECURSIVE InsertSorted(_, _)
InsertSorted(sorted, k) ==
    IF sorted = << >> THEN << k >>
    ELSE IF Rank(k) < Rank(Head(sorted)) THEN << k >> \o sorted
    ELSE << Head(sorted) >> \o InsertSorted(Tail(sorted), k)

\* A LoadAll that walks the keys in the order the map iteration gave them.
SortNone(keys) == keys

\* sort.Strings.
RECURSIVE SortStrings(_)
SortStrings(keys) ==
    IF keys = << >> THEN << >> ELSE InsertSorted(SortStrings(Tail(keys)), Head(keys))

\* strings.EqualFold on the adapter ids in use.
EqualFold(a, b) ==
    (IF a = "ADP" THEN "adp" ELSE IF a = "LISTER-ADP" THEN "lister-adp" ELSE a)
      = (IF b = "ADP" THEN "adp" ELSE IF b = "LISTER-ADP" THEN "lister-adp" ELSE b)

\* A loop that passes over a file that does not decode as it passes over a
\* vanished one.
RECURSIVE LoadEachSkipping(_, _, _, _)
LoadEachSkipping(w, keys, adapterID, acc) ==
    IF keys = << >> THEN [err |-> "", metas |-> acc]
    ELSE IF Load(w, Head(keys)).err # "" THEN LoadEachSkipping(w, Tail(keys), adapterID, acc)
    ELSE IF adapterID # "" /\ ~EqualFold(Load(w, Head(keys)).meta.Adapter, adapterID)
    THEN LoadEachSkipping(w, Tail(keys), adapterID, acc)
    ELSE LoadEachSkipping(w, Tail(keys), adapterID, Append(acc, Load(w, Head(keys)).meta))

\* The loop of LoadAll, lines 173-187: a vanished file is skipped, any other
\* error ends the call, a header of another adapter is dropped.
RECURSIVE LoadEach(_, _, _, _)
LoadEach(w, keys, adapterID, acc) ==
    IF keys = << >> THEN [err |-> "", metas |-> acc]
    ELSE IF Load(w, Head(keys)).err = "notexist" THEN LoadEach(w, Tail(keys), adapterID, acc)
    ELSE IF Load(w, Head(keys)).err # "" THEN [err |-> "error loading meta", metas |-> << >>]
    ELSE IF adapterID # "" /\ ~EqualFold(Load(w, Head(keys)).meta.Adapter, adapterID)
    THEN LoadEach(w, Tail(keys), adapterID, acc)
    ELSE LoadEach(w, Tail(keys), adapterID, Append(acc, Load(w, Head(keys)).meta))

\* SearchMap.LoadAll; iteration is the order in which ranging over sm.Full
\* yielded the keys.
LoadAll(w, iteration, adapterID) == LoadEach(w, SortStrings(iteration), adapterID, << >>)

\* The orders in which a Go map over the set S may be ranged.
RECURSIVE Iterations(_)
Iterations(S) ==
    IF S = {} THEN {<< >>}
    ELSE UNION {{<< k >> \o rest : rest \in Iterations(S \ {k})} : k \in S}

----------------------------------------------------------------------------
(* Registry: the pure parts of newAdapterWithContext *)

\* strings.ToLower on the adapter ids in use.
ToLower(s) == IF s = "ADP" THEN "adp" ELSE IF s = "LISTER-ADP" THEN "lister-adp" ELSE s

\* A lookup that makes up a factory for an id that has none.
getFactoryAny(facs, adapterID) == [err |-> "", kind |-> ToLower(adapterID)]

\* Lines 430-435.
IsRegistered(facs, adapterID) == ToLower(adapterID) \in DOMAIN facs

\* Lines 437-445.
getFactory(facs, adapterID) ==
    IF ToLower(adapterID) \in DOMAIN facs
    THEN [err |-> "", kind |-> facs[ToLower(adapterID)]]
    ELSE [err |-> "unknown adapter", kind |-> ""]

\* hash/fnv New64a over key, a zero byte and the context, printed as %016x.
\* The 64-bit sum is kept symbolic: distinct inputs give distinct sums.
Fnv64a(key, contextPath) == "fnv(" \o key \o "|" \o contextPath \o ")"

\* A key generator that appends the context hash for every adapter.
keyGenAnyAdapter(kind, adapterID, item, contextPath) ==
    LET key0 == ToLower(adapterID)
        key == IF ~item.isNil /\ item.Name # "" THEN key0 \o "__" \o item.Name ELSE key0
    IN IF contextPath = "" THEN key ELSE key \o "__" \o Fnv64a(key, contextPath)

\* A key generator that leaves the context out of the key.
keyGenNoContext(kind, adapterID, item, contextPath) ==
    LET key0 == ToLower(adapterID)
    IN IF ~item.isNil /\ item.Name # "" THEN key0 \o "__" \o item.Name ELSE key0

keyGen(kind, adapterID, item, contextPath) ==
    LET key0 == ToLower(adapterID)
        key == IF ~item.isNil /\ item.Name # "" THEN key0 \o "__" \o item.Name ELSE key0
    IN IF ~WorkDirSettable(kind) \/ contextPath = ""
       THEN key
       ELSE key \o "__" \o Fnv64a(key, contextPath)

\* json.Unmarshal of a payload into a struct: the fields the payload names
\* are set, the others keep their value; a value of the wrong type is
\* skipped and reported after the rest was decoded.
Unmarshal(raw, target) ==
    [err |-> \E f \in DOMAIN raw.obj \cap DOMAIN target : raw.obj[f] = Mistyped,
     val |-> [f \in DOMAIN target |->
                IF f \in DOMAIN raw.obj /\ raw.obj[f] # Mistyped THEN raw.obj[f] ELSE target[f]]]

\* A decoder that takes the item payload first and the adapter payload last.
applyConfigItemFirst(inst, adapterID, meta, itemMeta) ==
    LET doI == ~itemMeta.isNil /\ ~itemMeta.RawSpec.empty /\ ItemConfigurable(inst.kind)
        b == Unmarshal(itemMeta.RawSpec, IF SameTarget(inst.kind) THEN inst.Spec ELSE inst.ItemSpec)
        i1 == IF ~doI THEN inst
              ELSE IF SameTarget(inst.kind)
                   THEN [inst EXCEPT !.Spec = b.val, !.nItemDecode = @ + 1]
                   ELSE [inst EXCEPT !.ItemSpec = b.val, !.nItemDecode = @ + 1]
        doA == ~meta.isNil /\ ~meta.RawSpec.empty /\ Configurable(inst.kind)
        a == Unmarshal(meta.RawSpec, i1.Spec)
        i2 == IF doA THEN [i1 EXCEPT !.Spec = a.val, !.nDecode = @ + 1] ELSE i1
    IN IF doI /\ b.err THEN [err |-> "decode spec", inst |-> i1]
       ELSE IF doA /\ a.err THEN [err |-> "decode spec", inst |-> i2]
       ELSE [err |-> "", inst |-> i2]

\* Lines 467-487: the adapter payload into ConfigPtr(), then the item payload
\* into ItemConfigPtr(name).
applyConfig(inst, adapterID, meta, itemMeta) ==
    LET doA == ~meta.isNil /\ ~meta.RawSpec.empty /\ Configurable(inst.kind)
        a == Unmarshal(meta.RawSpec, inst.Spec)
        i1 == IF doA THEN [inst EXCEPT !.Spec = a.val, !.nDecode = @ + 1] ELSE inst
        doI == ~itemMeta.isNil /\ ~itemMeta.RawSpec.empty /\ ItemConfigurable(inst.kind)
        b == Unmarshal(itemMeta.RawSpec, IF SameTarget(inst.kind) THEN i1.Spec ELSE i1.ItemSpec)
        i2 == IF ~doI THEN i1
              ELSE IF SameTarget(inst.kind)
                   THEN [i1 EXCEPT !.Spec = b.val, !.nItemDecode = @ + 1]
                   ELSE [i1 EXCEPT !.ItemSpec = b.val, !.nItemDecode = @ + 1]
    IN IF doA /\ a.err THEN [err |-> "decode spec", inst |-> i1]
       ELSE IF doI /\ b.err THEN [err |-> "decode spec", inst |-> i2]
       ELSE [err |-> "", inst |-> i2]

\* A resolution in which the adapter-level config wins over the item-level one.
resolveWorkDirAdapterLast(defaultWorkDir, meta, itemMeta) ==
    LET d1 == IF itemMeta.isNil \/ itemMeta.WorkDir = "" THEN defaultWorkDir ELSE itemMeta.WorkDir
    IN IF meta.isNil \/ meta.WorkDir = "" THEN d1 ELSE meta.WorkDir

\* A resolution that drops the parent's working directory.
resolveWorkDirNoInherit(defaultWorkDir, meta, itemMeta) ==
    LET d1 == IF meta.isNil \/ meta.WorkDir = "" THEN "" ELSE meta.WorkDir
    IN IF itemMeta.isNil \/ itemMeta.WorkDir = "" THEN d1 ELSE itemMeta.WorkDir

\* The last non-nil meta with a working directory wins over the default.
resolveWorkDir(defaultWorkDir, meta, itemMeta) ==
    LET d1 == IF meta.isNil \/ meta.WorkDir = "" THEN defaultWorkDir ELSE meta.WorkDir
    IN IF itemMeta.isNil \/ itemMeta.WorkDir = "" THEN d1 ELSE itemMeta.WorkDir

----------------------------------------------------------------------------
(* Dependency resolver: the pure parts *)

\* words.ToCapWords on the dependency keys in use.
ToCapWords(mapName) ==
    CASE mapName = "extra" -> "Extra"
      [] mapName = "lister_provider" -> "ListerProvider"
      [] OTHER -> mapName

EqualFoldRequired(p) == p \in {"required", "Required", "REQUIRED"}

\* A reading of tags in which "required" in first place is the flag too.
TagAdapterFlagFirst(tag) ==
    IF Len(tag) >= 1 /\ ~EqualFoldRequired(tag[1]) THEN tag[1] ELSE ""

\* The adapter id a tag names: the first token of two or more, or a single
\* token that is not "required".  A tag is the sequence of its trimmed
\* comma-separated tokens, the empty sequence for no tag.
TagAdapter(tag) ==
    IF Len(tag) >= 2 THEN tag[1]
    ELSE IF Len(tag) = 1 /\ ~EqualFoldRequired(tag[1]) THEN tag[1]
    ELSE ""

\* findStructDeps over the fields of a struct type, lines 173-209.
findStructDepsOf(fields) ==
    LET fs == {fields[i] : i \in 1..Len(fields)}
        tagged == {f \in fs : f.exported /\ Len(f.tag) > 0 /\ TagAdapter(f.tag) # ""}
    IN MkMap([n \in {f.name : f \in tagged} |->
                 DepRef(TagAdapter((CHOOSE f \in tagged : f.name = n).tag))])

findStructDeps(kind) == findStructDepsOf(Fields(kind))

\* A merge in which the inferred entry wins.
mergeDepsInferredWins(config, inferred) ==
    IF config.isNil /\ inferred.isNil THEN NilMap
    ELSE MkMap([k \in DOMAIN config.m \cup DOMAIN inferred.m |->
                  IF k \in DOMAIN inferred.m THEN inferred.m[k] ELSE config.m[k]])

\* mergeDeps, lines 214-231: nil for two nil maps, else a new map with the
\* entries of config and those of inferred under the keys config lacks.
mergeDeps(config, inferred) ==
    IF config.isNil /\ inferred.isNil THEN NilMap
    ELSE MkMap([k \in DOMAIN config.m \cup DOMAIN inferred.m |->
                  IF k \in DOMAIN config.m THEN config.m[k] ELSE inferred.m[k]])

\* A validation that accepts every instance.
validateRequiredDepsNone(inst) == [err |-> "", field |-> ""]

\* A validation for which every tag that holds the flag makes a field
\* mandatory.
validateRequiredDepsAnyToken(fs, values) ==
    LET bad == {i \in 1..Len(fs) :
                  /\ \E j \in 1..Len(fs[i].tag) : EqualFoldRequired(fs[i].tag[j])
                  /\ values[fs[i].name] = 0}
    IN IF bad = {} THEN [err |-> "", field |-> ""]
       ELSE LET i == CHOOSE i \in bad : \A j \in bad : i <= j
            IN [err |-> "missing required dependency", field |-> fs[i].name]

\* validateRequiredDeps over the fields of a struct and the values they
\* hold, lines 137-155: the first field whose tag is "required" and which is
\* still nil, if any.
validateRequiredDepsOf(fs, values) ==
    LET bad == {i \in 1..Len(fs) : fs[i].tag = << "required" >> /\ values[fs[i].name] = 0}
    IN IF bad = {} THEN [err |-> "", field |-> ""]
       ELSE LET i == CHOOSE i \in bad : \A j \in bad : i <= j
            IN [err |-> "missing required dependency", field |-> fs[i].name]

validateRequiredDeps(inst) == validateRequiredDepsOf(Fields(inst.kind), inst.fields)

----------------------------------------------------------------------------
(* Activations of newAdapterWithContext *)

\* What a get hands back: the instance, or the error, the field it names
\* and the adapter ids it was wrapped with on the way out, outermost first.
NoResult == [inst |-> 0, err |-> "", field |-> "", wrapped |-> << >>]

Ok(inst) == [inst |-> inst, err |-> "", field |-> "", wrapped |-> << >>]

Err(err, field) == [inst |-> 0, err |-> err, field |-> field, wrapped |-> << >>]

\* Lines 557-559, and the activation in front of the cache probe.
Keyed(adapterID, kind, meta, itemMeta, wd, args) ==
    [adapterID |-> adapterID, args |-> args, kind |-> kind,
     meta |-> meta, itemMeta |-> itemMeta,
     regKey |-> keyGen(kind, adapterID, itemMeta, wd),
     wd |-> wd, pc |-> "probe", zero |-> 0, pos |-> 0, todo |-> {}, cur |-> "",
     reg |-> "default"]

\* A loader for which a missing config is an error too.
LoadedStrict(adapterID, kind, lm, li, defaultWorkDir, args) ==
    IF lm.err # "" THEN [err |-> "failed reading config"]
    ELSE IF li.err # "" THEN [err |-> "failed reading item config"]
    ELSE [err |-> "",
          frame |-> Keyed(adapterID, kind, lm.meta, li.meta,
                          resolveWorkDir(defaultWorkDir, lm.meta, li.meta), args)]

\* Lines 542-555: a missing config is tolerated, any other error is not.
Loaded(adapterID, kind, lm, li, defaultWorkDir, args) ==
    IF lm.err \notin {"", "notexist"} THEN [err |-> "failed reading config"]
    ELSE IF li.err \notin {"", "notexist"} THEN [err |-> "failed reading item config"]
    ELSE [err |-> "",
          frame |-> Keyed(adapterID, kind, lm.meta, li.meta,
                          resolveWorkDir(defaultWorkDir, lm.meta, li.meta), args)]

\* An item load made for every adapter that is given an argument.
LoadItemAny(w, kind, args) ==
    IF Len(args) > 0 THEN Load(w, args[1]) ELSE [err |-> "", meta |-> NilMeta]

\* Lines 548-555: the item-level config, for an adapter that takes one.
LoadItem(w, kind, args) ==
    IF ItemConfigurable(kind) /\ Len(args) > 0 THEN Load(w, args[1])
    ELSE [err |-> "", meta |-> NilMeta]

Made(w, fac, adapterID, defaultWorkDir, args) ==
    IF fac.err # "" THEN [err |-> fac.err]
    ELSE Loaded(adapterID, fac.kind, Load(w, adapterID), LoadItem(w, fac.kind, args),
                defaultWorkDir, args)

\* Lines 526-559: SearchMap check, factory lookup, zeroFac(), the two config
\* loads, the resolved working directory and the cache key.
Enter(w, facs, adapterID, defaultWorkDir, args) ==
    IF ~w.set THEN [err |-> "no SearchMap configured"]
    ELSE Made(w, getFactory(facs, adapterID), adapterID, defaultWorkDir, args)

\* applyDeps runs twice: positions 1, 2 are resolveMapDeps and
\* resolveStructDeps for the adapter-level meta, 3, 4 for the item-level
\* meta; 5 is past both.
\* Passes that take the item-level meta first.
PassMetaItemFirst(fr, pos) == IF pos <= 2 THEN fr.itemMeta ELSE fr.meta

PassMeta(fr, pos) == IF pos <= 2 THEN fr.meta ELSE fr.itemMeta

IsMapPos(pos) == pos \in {1, 3}

\* applyDeps, lines 15-30: the merged dependency map of one pass.
ConfigDeps(meta) == IF meta.isNil THEN NilMap ELSE meta.Dependencies

DepsAt(fr, pos) == mergeDeps(ConfigDeps(PassMeta(fr, pos)), findStructDeps(fr.kind))

\* The dependency keys a position iterates over: none when the merged map is
\* nil, and none for resolveMapDeps unless the adapter is a Depender.
KeysOf(deps, skip) == IF deps.isNil \/ skip THEN {} ELSE DOMAIN deps.m

TodoAt(fr, pos) ==
    IF pos >= 5 THEN {} ELSE KeysOf(DepsAt(fr, pos), IsMapPos(pos) /\ ~Depender(fr.kind))

\* An activation that goes to the validation without injecting anything.
GotoValidation(fr, p) == [fr EXCEPT !.pc = "validate", !.pos = 5]

Goto(fr, p) ==
    IF p = 5 THEN [fr EXCEPT !.pc = "validate", !.pos = 5]
    ELSE [fr EXCEPT !.pc = "deps", !.pos = p, !.todo = TodoAt(fr, p)]

\* The activation moves on to the next position that has keys left, or to
\* the validation.
Settle(fr) ==
    IF fr.todo # {} THEN fr
    ELSE Goto(fr, CHOOSE p \in (fr.pos + 1)..5 :
                    /\ p = 5 \/ TodoAt(fr, p) # {}
                    /\ \A q \in (fr.pos + 1)..(p - 1) : TodoAt(fr, q) = {})

Top(t) == Last(stack[t])

At(t, pc) == stack[t] # << >> /\ Top(t).pc = pc

SetTop(t, fr) == [stack EXCEPT ![t] = Front(@) \o << fr >>]

\* What the history keeps of a get that returned an instance.
Request(fr, inst) ==
    [id |-> ToLower(fr.adapterID), item |-> fr.itemMeta.Name, ctx |-> fr.wd, kind |-> fr.kind,
     key |-> fr.regKey, inst |-> inst,
     declared |-> ConfigDeps(fr.meta), itemDeclared |-> ConfigDeps(fr.itemMeta)]

\* The adapter ids the activations wrap an error with (lines 591, 594, 599,
\* 606); an error of applyConfig leaves its own activation as it is (580).
Wrapped(frames) ==
    LET n == IF Last(frames).pc = "config" THEN Len(frames) - 1 ELSE Len(frames)
    IN [j \in 1..n |-> frames[j].adapterID]

\* An error leaves every activation of the caller: each wraps it and
\* returns.  Nothing is removed from the cache.
Unwind(t, res, h) ==
    LET frames == stack[t]
        zeros == {frames[j].zero : j \in 1..Len(frames)}
    IN /\ stack' = [stack EXCEPT ![t] = << >>]
       /\ result' = [result EXCEPT ![t] = [res EXCEPT !.wrapped = Wrapped(frames)]]
       /\ heap' = [i \in DOMAIN h |->
                     IF i \notin zeros THEN h[i]
                     ELSE IF i = Last(frames).zero
                          THEN [h[i] EXCEPT !.failed = res.err, !.failedField = res.field]
                          ELSE [h[i] EXCEPT !.failed = "dependency"]]

\* The top activation returns inst without error: to the external caller,
\* or to the activation that asked for the dependency, which hands it to
\* AddDependency (dep.go:73) or checks and sets the field (dep.go:112-121).
Return(t, inst, h) ==
    LET fr == Top(t)
        rest == Front(stack[t])
        parent == Last(rest)
        k == parent.cur
        next == Settle([parent EXCEPT !.todo = @ \ {k}, !.cur = ""])
        field == FieldByName(parent.kind, ToCapWords(k))
    IN /\ returned' = returned \cup {Request(fr, inst)}
       /\ IF rest = << >>
          THEN /\ stack' = [stack EXCEPT ![t] = << >>]
               /\ result' = [result EXCEPT ![t] = Ok(inst)]
               /\ heap' = h
          ELSE IF IsMapPos(parent.pos)
          THEN /\ stack' = [stack EXCEPT ![t] = Front(rest) \o << next >>]
               /\ heap' = [h EXCEPT ![parent.zero].named = Put(@, k, inst)]
               /\ UNCHANGED result
          ELSE IF ~AssignableTo(h[inst].kind, field.type)
          THEN /\ stack' = [stack EXCEPT ![t] = << >>]
               /\ result' = [result EXCEPT ![t] = [Err("not assignable", field.name)
                                                     EXCEPT !.wrapped = Wrapped(rest)]]
               /\ heap' = [i \in DOMAIN h |->
                             IF i \notin {rest[j].zero : j \in 1..Len(rest)} THEN h[i]
                             ELSE IF i = parent.zero
                                  THEN [h[i] EXCEPT !.failed = "not assignable",
                                                    !.failedField = field.name]
                                  ELSE [h[i] EXCEPT !.failed = "dependency"]]
          ELSE /\ stack' = [stack EXCEPT ![t] = Front(rest) \o << next >>]
               /\ heap' = [h EXCEPT ![parent.zero].fields[field.name] = inst]
               /\ UNCHANGED result

----------------------------------------------------------------------------
(* Actions *)

\* No LoadAllAdaptersFrom call is running.
NoBatch ==
    [active |-> FALSE, done |-> FALSE, adapterID |-> "", T |-> "", entries |-> << >>,
     todo |-> << >>, waiting |-> FALSE, out |-> << >>, skipped |-> << >>, err |-> ""]

\* sync.RWMutex: who holds it for writing, who holds it for reading, and the
\* first fault of the discipline, if any.
Unlocked == [writer |-> "", readers |-> {}, fault |-> ""]

CanRLock(m) == m.writer = ""

CanLock(m) == m.writer = "" /\ m.readers = {}

RLock(m, t) == [m EXCEPT !.readers = @ \cup {t}]

RUnlock(m, t) == [m EXCEPT !.readers = @ \ {t}]

Lock(m, t) == [m EXCEPT !.writer = t]

\* A caller that leaves the write lock held.
UnlockNever(m, t) == m

Unlock(m, t) == [m EXCEPT !.writer = ""]

Fault(m, what) == IF m.fault = "" THEN [m EXCEPT !.fault = what] ELSE m

\* A read or a write of r.factories or r.adapters by t, and a call by t of
\* code from outside the registry: a factory, a config load, the
\* construction of a dependency, a hook.
Read(m, t) == IF t \in m.readers THEN m ELSE Fault(m, "read without the shared lock")

Write(m, t) == IF m.writer = t THEN m ELSE Fault(m, "write without the exclusive lock")

Run(m, t) == IF m.writer = t \/ t \in m.readers THEN Fault(m, "call with the lock held") ELSE m

\* getFactory, lines 439-446, and what follows it up to line 559: nothing
\* when no SearchMap is configured, the lookup alone when the id is unknown.
Entered(m, t, e) ==
    IF e.err = "no SearchMap configured" THEN m
    ELSE IF e.err = "unknown adapter" THEN RUnlock(Read(RLock(m, t), t), t)
    ELSE Run(RUnlock(Read(RLock(m, t), t), t), t)

\* A Registry as a test constructs it: empty tables, no SearchMap.
NewRegistry == [factories |-> EmptyMap, adapters |-> EmptyMap, world |-> NoWorld]

GetInputs == Kinds \X { << >>, << "items/inst1" >>, << "inst2" >> }

Init ==
    /\ world = NoWorld
    /\ factories = EmptyMap
    /\ adapters = EmptyMap
    /\ heap = << >>
    /\ stack = [t \in Threads |-> << >>]
    /\ result = [t \in Threads |-> NoResult]
    /\ gets = 0
    /\ returned = {}
    /\ factoryCalls = EmptyMap
    /\ inserts = EmptyMap
    /\ reuses = EmptyMap
    /\ lookups = {}
    /\ batch = NoBatch
    /\ mu = Unlocked
    /\ isolated = NewRegistry

\* Registry.SetSearchPath, once at startup.
SetSearchPath(w) ==
    /\ ~world.set
    /\ world' = w
    /\ UNCHANGED << mu, isolated, lookups, batch, factories, adapters, heap, stack, result, gets, returned,
                    factoryCalls, inserts, reuses >>

\* The caller of Register, at start-up.
Registrar == "init"

\* Registry.Register: the factory registered for an id produces that kind.
Register(adapterID) ==
    /\ CanLock(mu)
    /\ mu' = Unlock(Write(Lock(mu, Registrar), Registrar), Registrar)
    /\ factories' = Put(factories, ToLower(adapterID), ToLower(adapterID))
    /\ UNCHANGED << isolated, lookups, batch, world, adapters, heap, stack, result, gets, returned,
                    factoryCalls, inserts, reuses >>

\* A registry that would call the factory on a cache miss only: no call is
\* made in front of the probe.
ZeroFacOnMiss(calls, regKey) == calls

\* Line 535: zero := zeroFac(), counted under the key the request resolves to.
ZeroFacCalled(calls, regKey) == Inc(calls, regKey)

\* Registry.NewAdapter by an external caller, up to the cache probe.
NewAdapter(t, adapterID, args, max) ==
    /\ stack[t] = << >>
    /\ gets < max
    /\ gets' = gets + 1
    /\ CanRLock(mu)
    /\ LET e == Enter(world, factories, adapterID, "", args) IN
       /\ mu' = Entered(mu, t, e)
       /\ IF e.err # ""
          THEN /\ result' = [result EXCEPT ![t] = Err(e.err, "")]
               /\ UNCHANGED << stack, factoryCalls >>
          ELSE /\ stack' = [stack EXCEPT ![t] = << e.frame >>]
               /\ factoryCalls' = ZeroFacCalled(factoryCalls, e.frame.regKey)
               /\ UNCHANGED result
    /\ UNCHANGED << isolated, lookups, batch, world, factories, adapters, heap, returned, inserts, reuses >>

\* A probe that finds only instances whose construction completed.
CacheHitReadyOnly(cache, regKey) ==
    regKey \in DOMAIN cache /\ heap[cache[regKey]].stage = "ready"

\* A probe that finds nothing.
CacheHitNever(cache, regKey) == FALSE

\* Lines 562-563: the lookup of the probe.
CacheHit(cache, regKey) == regKey \in DOMAIN cache

\* The registry an activation is a method call on: the default one, whose
\* lock is mu, or the isolated one, which has a lock of its own.
Own(fr) == fr.reg = "default"

CacheOf(fr) == IF Own(fr) THEN adapters ELSE isolated.adapters

\* A probe that runs the first-use hook of the instance it finds.
ProbeRehydrate(t) ==
    /\ At(t, "probe")
    /\ Own(Top(t)) => CanRLock(mu)
    /\ mu' = IF Own(Top(t)) THEN RUnlock(Read(RLock(mu, t), t), t) ELSE mu
    /\ IF CacheHit(CacheOf(Top(t)), Top(t).regKey)
       THEN /\ LET i == CacheOf(Top(t))[Top(t).regKey]
               IN Return(t, i, IF Hydrater(heap[i].kind)
                               THEN [heap EXCEPT ![i].nHydrate = @ + 1]
                               ELSE heap)
            /\ reuses' = Inc(reuses, Top(t).regKey)
       ELSE /\ stack' = SetTop(t, [Top(t) EXCEPT !.pc = "insert"])
            /\ UNCHANGED << heap, result, returned, reuses >>
    /\ UNCHANGED << isolated, lookups, batch, world, factories, adapters, gets, factoryCalls, inserts >>

\* Lines 562-568: the probe under the read lock; a hit returns at once.
Probe(t) ==
    /\ At(t, "probe")
    /\ Own(Top(t)) => CanRLock(mu)
    /\ mu' = IF Own(Top(t)) THEN RUnlock(Read(RLock(mu, t), t), t) ELSE mu
    /\ IF CacheHit(CacheOf(Top(t)), Top(t).regKey)
       THEN /\ Return(t, CacheOf(Top(t))[Top(t).regKey], heap)
            /\ reuses' = Inc(reuses, Top(t).regKey)
       ELSE /\ stack' = SetTop(t, [Top(t) EXCEPT !.pc = "insert"])
            /\ UNCHANGED << heap, result, returned, reuses >>
    /\ UNCHANGED << isolated, lookups, batch, world, factories, adapters, gets, factoryCalls, inserts >>

\* Lines 572-576: the zero instance is stored under the write lock.
Insert(t) ==
    /\ At(t, "insert")
    /\ heap' = Append(heap, Zero(Top(t).kind, Top(t).regKey))
    /\ IF Own(Top(t))
       THEN /\ CanLock(mu)
            /\ mu' = Unlock(Write(Lock(mu, t), t), t)
            /\ adapters' = Put(adapters, Top(t).regKey, Len(heap) + 1)
            /\ UNCHANGED isolated
       ELSE /\ isolated' = [isolated EXCEPT !.adapters = Put(@, Top(t).regKey, Len(heap) + 1)]
            /\ UNCHANGED << mu, adapters >>
    /\ inserts' = Inc(inserts, Top(t).regKey)
    /\ stack' = SetTop(t, [Top(t) EXCEPT !.pc = "config", !.zero = Len(heap) + 1])
    /\ UNCHANGED << lookups, batch, world, factories, result, gets, returned, factoryCalls, reuses >>

\* Lines 578-581.
ApplyConfig(t) ==
    /\ At(t, "config")
    /\ LET fr == Top(t)
           r == applyConfig(heap[fr.zero], fr.adapterID, fr.meta, fr.itemMeta)
       IN IF r.err # ""
          THEN Unwind(t, Err(r.err, ""), [heap EXCEPT ![fr.zero] = r.inst])
          ELSE /\ heap' = [heap EXCEPT ![fr.zero] = [r.inst EXCEPT !.stage = "configured"]]
               /\ stack' = SetTop(t, [fr EXCEPT !.pc = "workdir"])
               /\ UNCHANGED result
    /\ UNCHANGED << mu, isolated, lookups, batch, world, factories, adapters, gets, returned, factoryCalls, inserts, reuses >>

\* Lines 583-587; the activation then stands at its first dependency.
SetWorkDir(t) ==
    /\ At(t, "workdir")
    /\ LET fr == Top(t) IN
       /\ heap' = [heap EXCEPT ![fr.zero].stage = "contextualized",
                               ![fr.zero].WorkDir =
                                   IF WorkDirSettable(fr.kind) /\ fr.wd # "" THEN fr.wd ELSE @]
       /\ stack' = SetTop(t, Settle(fr))
    /\ UNCHANGED << mu, isolated, lookups, batch, world, factories, adapters, result, gets, returned,
                    factoryCalls, inserts, reuses >>

\* An argument list with the name behind the arguments.
depArgsNameLast(ref) ==
    [args |-> ref.Args \o (IF ref.Name # "" THEN << ref.Name >> ELSE << >>), ref |-> ref]

\* resolveMapDeps, dep.go:62-66: the name is appended to a nil slice, then
\* the elements of ref.Args; ref is what the call leaves in the DepRef.
depArgs(ref) ==
    [args |-> (IF ref.Name # "" THEN Append(<< >>, ref.Name) ELSE << >>) \o ref.Args,
     ref |-> ref]

\* resolveStructDeps, dep.go:100-103: the name is put in front of a clone
\* of ref.Args.
childArgs(ref) ==
    [args |-> IF ref.Name # "" THEN << ref.Name >> \o ref.Args ELSE ref.Args,
     ref |-> ref]

\* One iteration of resolveMapDeps (dep.go:44-70) or resolveStructDeps
\* (dep.go:90-108) up to the dependency's own cache probe.  Go iterates a map
\* in no fixed order.  The dependency is requested from the package-level
\* registry, which is the registry modelled here.
ResolveDep(t) ==
    /\ At(t, "deps")
    /\ Len(stack[t]) < MaxDepth
    /\ \E k \in Top(t).todo :
         LET fr == Top(t)
             ref == DepsAt(fr, fr.pos).m[k]
             args == IF IsMapPos(fr.pos) THEN depArgs(ref).args ELSE childArgs(ref).args
             fieldName == ToCapWords(k)
             e == Enter(world, factories, ref.Adapter, fr.wd, args)
         IN IF ~IsMapPos(fr.pos) /\ fieldName \notin FieldNames(fr.kind)
            THEN /\ Unwind(t, Err("field not found", fieldName), heap)
                 /\ UNCHANGED << mu, factoryCalls >>
            ELSE IF ~IsMapPos(fr.pos) /\ ~FieldByName(fr.kind, fieldName).exported
            THEN /\ Unwind(t, Err("field not settable", fieldName), heap)
                 /\ UNCHANGED << mu, factoryCalls >>
            ELSE IF e.err # ""
            THEN /\ CanRLock(mu)
                 /\ mu' = Entered(Run(mu, t), t, e)
                 /\ Unwind(t, Err(e.err, ""), heap)
                 /\ UNCHANGED factoryCalls
            ELSE /\ CanRLock(mu)
                 /\ mu' = Entered(Run(mu, t), t, e)
                 /\ stack' = [stack EXCEPT ![t] =
                                Front(@) \o << [fr EXCEPT !.cur = k], e.frame >>]
                 /\ factoryCalls' = ZeroFacCalled(factoryCalls, e.frame.regKey)
                 /\ UNCHANGED << heap, result >>
    /\ UNCHANGED << isolated, lookups, batch, world, factories, adapters, gets, returned, inserts, reuses >>

\* Lines 597-600, and the return of line 610 for an adapter without a hook.
Validate(t) ==
    /\ At(t, "validate")
    /\ LET fr == Top(t)
           r == validateRequiredDeps(heap[fr.zero])
           h == [heap EXCEPT ![fr.zero].nValidate = @ + 1]
       IN IF r.err # ""
          THEN /\ Unwind(t, Err(r.err, r.field), h)
               /\ UNCHANGED returned
          ELSE IF Hydrater(fr.kind)
          THEN /\ heap' = [h EXCEPT ![fr.zero].stage = "validated"]
               /\ stack' = SetTop(t, [fr EXCEPT !.pc = "hydrate"])
               /\ UNCHANGED << result, returned >>
          ELSE Return(t, fr.zero, [h EXCEPT ![fr.zero].stage = "ready"])
    /\ UNCHANGED << mu, isolated, lookups, batch, world, factories, adapters, gets, factoryCalls, inserts, reuses >>

\* Lines 602-610: the first-use hook, which succeeds or fails, and the return.
Hydrate(t) ==
    /\ At(t, "hydrate")
    /\ LET fr == Top(t)
           h == [heap EXCEPT ![fr.zero].nHydrate = @ + 1]
       IN \E ok \in BOOLEAN :
            IF ok
            THEN Return(t, fr.zero, [h EXCEPT ![fr.zero].stage = "ready"])
            ELSE /\ Unwind(t, Err("hydrate failed", ""), h)
                 /\ UNCHANGED returned
    /\ mu' = Run(mu, t)
    /\ UNCHANGED << isolated, lookups, batch, world, factories, adapters, gets, factoryCalls, inserts, reuses >>

Step(t) ==
    \/ Probe(t)
    \/ Insert(t)
    \/ ApplyConfig(t)
    \/ SetWorkDir(t)
    \/ ResolveDep(t)
    \/ Validate(t)
    \/ Hydrate(t)

Setup(worlds) ==
    \/ \E w \in worlds : SetSearchPath(w)
    \/ \E id \in Kinds : Register(id)

\* One caller at a time: every NewAdapter returns before the next is issued.
Next ==
    \/ Setup(Worlds)
    \/ \E in \in GetInputs : NewAdapter("t1", in[1], in[2], MaxGets)
    \/ \E t \in Threads : Step(t)

Spec == Init /\ [][Next]_vars

\* Concurrent callers on the shared registry.
ConcNext ==
    \/ Setup(ConcWorlds)
    \/ \E t \in Threads, in \in GetInputs : NewAdapter(t, in[1], in[2], MaxConcGets)
    \/ \E t \in Threads : Step(t)

ConcSpec == Init /\ [][ConcNext]_vars

\* One construction of adp, with and without the item config, over every
\* pair of payloads.
CfgInputs == {"adp"} \X { << >>, << "items/inst1" >> }

CfgNext ==
    \/ Setup(CfgWorlds)
    \/ \E in \in CfgInputs : NewAdapter("t1", in[1], in[2], MaxCfgGets)
    \/ \E t \in Threads : Step(t)

CfgSpec == Init /\ [][CfgNext]_vars

----------------------------------------------------------------------------
(* Properties *)

\* The frames of all activations.
Frames == UNION {{stack[t][j] : j \in 1..Len(stack[t])} : t \in Threads}

\* The fields of an instance tagged exactly "required" that hold nil.
MandatoryNil(inst) ==
    {n \in FieldNames(inst.kind) :
        FieldByName(inst.kind, n).tag = << "required" >> /\ inst.fields[n] = 0}

SameRequest(r1, r2) == r1.id = r2.id /\ r1.item = r2.item /\ r1.ctx = r2.ctx

\* The spec payload of the adapter-level config of a request.
AdapterPayload(r) == Load(world, r.id).meta.RawSpec

\* C1: in a sequence of NewAdapter calls, two calls with the same adapter id,
\* resolved item name and resolved working context return the same instance,
\* and for every instance a call returns the adapter-level decode and the
\* first-use hook have run exactly once.
C1_SameRequestSameInstanceOnce ==
    /\ \A r1, r2 \in returned : SameRequest(r1, r2) => r1.inst = r2.inst
    /\ \A r \in returned :
          /\ (Configurable(r.kind) /\ ~AdapterPayload(r).empty) => heap[r.inst].nDecode = 1
          /\ Hydrater(r.kind) => heap[r.inst].nHydrate = 1

\* C2: two calls for a context-aware adapter with the same adapter id and
\* item name but different non-empty working contexts return two distinct
\* instances, each stored in the cache under its own key.
C2_DistinctContextDistinctInstance ==
    \A r1, r2 \in returned :
        (/\ r1.id = r2.id /\ r1.item = r2.item
         /\ WorkDirSettable(r1.kind)
         /\ r1.ctx # "" /\ r2.ctx # "" /\ r1.ctx # r2.ctx)
        => /\ r1.inst # r2.inst
           /\ r1.key # r2.key
           /\ r1.key \in DOMAIN adapters /\ adapters[r1.key] = r1.inst
           /\ r2.key \in DOMAIN adapters /\ adapters[r2.key] = r2.inst

C2_Witness ==
    \E r1, r2 \in returned :
        /\ r1.id = r2.id /\ r1.item = r2.item
        /\ WorkDirSettable(r1.kind)
        /\ r1.ctx # "" /\ r2.ctx # "" /\ r1.ctx # r2.ctx
        /\ r1.inst # r2.inst

\* C3: under concurrent callers the probe and the insert act as one step: at
\* most one caller inserts an instance for a key, so no entry is overwritten,
\* and all callers of a key receive the same instance.
C3_ProbeInsertAtomic ==
    /\ \A k \in DOMAIN inserts : inserts[k] <= 1
    /\ \A r1, r2 \in returned : r1.key = r2.key => r1.inst = r2.inst

\* C4 as stated: the factory is invoked at most once per cache key.
C4_FactoryOncePerKey == \A k \in DOMAIN factoryCalls : factoryCalls[k] <= 1

\* The activations of a key that called the factory and have not yet left
\* the probe or the insert.
Pending(k) ==
    Cardinality({p \in UNION {{<< t, j >> : j \in 1..Len(stack[t])} : t \in Threads} :
                    /\ stack[p[1]][p[2]].regKey = k
                    /\ stack[p[1]][p[2]].pc \in {"probe", "insert"}})

\* C4: in a sequence of NewAdapter calls at most one instance per cache key
\* is stored in the cache, and the factory is invoked once by every call that
\* reaches the probe: by the one that inserts and by each one that ends in a
\* cache hit.
C4_FactoryOncePerGet ==
    \A k \in DOMAIN factoryCalls \cup DOMAIN inserts \cup DOMAIN reuses :
        /\ Count(inserts, k) <= 1
        /\ Count(factoryCalls, k) = Count(inserts, k) + Count(reuses, k) + Pending(k)

C4_Witness ==
    \E k \in DOMAIN factoryCalls :
        factoryCalls[k] >= 2 /\ Count(inserts, k) = 1 /\ Count(reuses, k) >= 1

\* C5: under concurrent callers no instance is returned while an activation
\* is still constructing it.
C5_NoInstanceReturnedUnderConstruction ==
    \A r \in returned : \A fr \in Frames : fr.zero # r.inst

C7_FailedInstanceStaysCached ==
    /\ \A i \in DOMAIN heap :
          heap[i].failed # "" =>
            /\ heap[i].key \in DOMAIN adapters /\ adapters[heap[i].key] = i
            /\ heap[i].stage # "ready"
            /\ heap[i].nDecode <= 1 /\ heap[i].nItemDecode <= 1
            /\ heap[i].failed = "decode spec"
               => heap[i].stage = "zero" /\ heap[i].nValidate = 0 /\ heap[i].nHydrate = 0
            /\ heap[i].failed \notin {"decode spec", "missing required dependency", "hydrate failed"}
               => heap[i].stage = "contextualized" /\ heap[i].nValidate = 0 /\ heap[i].nHydrate = 0
            /\ heap[i].failed = "missing required dependency"
               => heap[i].stage = "contextualized" /\ heap[i].nValidate = 1 /\ heap[i].nHydrate = 0
            /\ heap[i].failed = "hydrate failed"
               => heap[i].stage = "validated" /\ heap[i].nValidate = 1 /\ heap[i].nHydrate = 1
    /\ \A r \in returned : heap[r.inst].failed # "" => Count(reuses, r.key) >= 1

C7_Witness ==
    \E r \in returned :
        /\ heap[r.inst].failed # ""
        /\ result["t1"] = Ok(r.inst)
        /\ Count(reuses, r.key) >= 1

\* The entry that declares dependency n for a request: the item-level one
\* if there is one, else the adapter-level one.
DeclaredFor(r, n) ==
    IF ~r.itemDeclared.isNil /\ n \in DOMAIN r.itemDeclared.m THEN {r.itemDeclared.m[n]}
    ELSE IF ~r.declared.isNil /\ n \in DOMAIN r.declared.m THEN {r.declared.m[n]}
    ELSE {}

\* C8: when the construction of an adapter completed, every field whose
\* dependency is both inferred from its tag and declared in config holds an
\* instance of the adapter the declaration names.
C8_DeclaredDependencyWins ==
    \A r \in returned :
        heap[r.inst].stage = "ready" =>
            \A n \in DOMAIN findStructDeps(r.kind).m \cap FieldNames(r.kind) :
                \A d \in DeclaredFor(r, n) :
                    /\ heap[r.inst].fields[n] # 0
                    /\ heap[heap[r.inst].fields[n]].kind = ToLower(d.Adapter)

\* C9: an instance that was validated while a field tagged "required" held
\* nil failed with the missing-required error naming such a field, and its
\* first-use hook never ran; a call that ends in that error returns no
\* instance.
C9_MissingRequiredIsFatal ==
    /\ \A i \in DOMAIN heap :
          (heap[i].nValidate >= 1 /\ MandatoryNil(heap[i]) # {}) =>
            /\ heap[i].failed = "missing required dependency"
            /\ heap[i].failedField \in MandatoryNil(heap[i])
            /\ heap[i].nHydrate = 0
            /\ heap[i].stage \notin {"validated", "ready"}
    /\ \A t \in Threads :
          result[t].err = "missing required dependency" =>
            /\ result[t].inst = 0
            /\ \E i \in DOMAIN heap :
                  /\ heap[i].failed = "missing required dependency"
                  /\ heap[i].failedField = result[t].field
                  /\ result[t].field \in MandatoryNil(heap[i])

C9_Witness ==
    /\ result["t1"].err = "missing required dependency"
    /\ result["t1"].field = "ListerProvider"
    /\ \E i \in DOMAIN heap :
          /\ heap[i].kind = "adp"
          /\ heap[i].nValidate = 1
          /\ heap[i].fields["ListerProvider"] = 0
          /\ heap[i].nHydrate = 0

\* The value the overlay of the item payload on the adapter payload gives a field.
Overlay(adapterRaw, itemRaw, f) ==
    IF f \in DOMAIN itemRaw.obj THEN itemRaw.obj[f]
    ELSE IF f \in DOMAIN adapterRaw.obj THEN adapterRaw.obj[f]
    ELSE ""

\* The activations of an adapter with one target for both payloads that have
\* decoded their config.
Configured ==
    {fr \in Frames : fr.zero # 0 /\ SameTarget(fr.kind) /\ fr.pc \notin {"probe", "insert", "config"}}

\* C10: when both payloads decode into the same target, every field of the
\* target holds the item value if the item payload has the field, else the
\* adapter value if the adapter payload has it.
C10_ItemOverlaysAdapter ==
    \A fr \in Configured :
        \A f \in DOMAIN heap[fr.zero].Spec :
            heap[fr.zero].Spec[f] = Overlay(fr.meta.RawSpec, fr.itemMeta.RawSpec, f)

C10_Witness ==
    \E fr \in Configured :
        /\ \E f \in DOMAIN fr.meta.RawSpec.obj \cap DOMAIN fr.itemMeta.RawSpec.obj :
              /\ fr.meta.RawSpec.obj[f] # fr.itemMeta.RawSpec.obj[f]
              /\ heap[fr.zero].Spec[f] = fr.itemMeta.RawSpec.obj[f]
        /\ \E g \in DOMAIN fr.meta.RawSpec.obj \ DOMAIN fr.itemMeta.RawSpec.obj :
              heap[fr.zero].Spec[g] = fr.meta.RawSpec.obj[g]

\* The positions of all activations: caller and depth.
Positions == UNION {{<< t, j >> : j \in 1..Len(stack[t])} : t \in Threads}

\* The parent context an activation was called with: none for an external
\* caller, the resolved context of the calling activation for a dependency.
ParentContext(p) == IF p[2] = 1 THEN "" ELSE stack[p[1]][p[2] - 1].wd

\* The context of a config, if the config exists and has one.
ContextOf(meta) == IF meta.isNil THEN "" ELSE meta.WorkDir

\* C11: the working context of a request is the context of the item-level
\* config if it has one, else that of the adapter-level config if it has
\* one, else the parent context; the cache key is made from it, and the
\* instance of a context-aware adapter holds it once it was set.
C11_EffectiveContext ==
    \A p \in Positions :
        LET fr == stack[p[1]][p[2]]
            expected == IF ContextOf(fr.itemMeta) # "" THEN ContextOf(fr.itemMeta)
                        ELSE IF ContextOf(fr.meta) # "" THEN ContextOf(fr.meta)
                        ELSE ParentContext(p)
        IN /\ fr.wd = expected
           /\ fr.regKey = keyGen(fr.kind, fr.adapterID, fr.itemMeta, expected)
           /\ (fr.pc \in {"deps", "validate", "hydrate"} /\ WorkDirSettable(fr.kind) /\ expected # "")
              => heap[fr.zero].WorkDir = expected

C11_Witness ==
    /\ Len(stack["t1"]) = 2
    /\ ContextOf(stack["t1"][1].itemMeta) # ""
    /\ ContextOf(stack["t1"][1].meta) # ""
    /\ ContextOf(stack["t1"][1].itemMeta) # ContextOf(stack["t1"][1].meta)
    /\ stack["t1"][1].wd = ContextOf(stack["t1"][1].itemMeta)
    /\ stack["t1"][2].meta.isNil
    /\ stack["t1"][2].wd = stack["t1"][1].wd
    /\ stack["t1"][2].pc = "validate"
    /\ heap[stack["t1"][2].zero].WorkDir = stack["t1"][1].wd

\* The instances an instance holds as dependencies, in fields and by name.
DepSlots(i) ==
    ({heap[i].fields[n] : n \in DOMAIN heap[i].fields}
     \cup {heap[i].named[n] : n \in DOMAIN heap[i].named}) \ {0}

\* The context the config of a dependency's own adapter declares.  A
\* dependency entry of the trees names no item.
OwnContext(kind) == ContextOf(Load(world, kind).meta)

\* C12: a context-aware dependency without a context of its own holds the
\* resolved context of the parent it was constructed for, one with a context
\* of its own holds that context; so two parents with different contexts
\* hold distinct instances of the former and one shared instance of the
\* latter.
C12_ContextFlowsDown ==
    /\ \A a \in DOMAIN heap : \A d \in DepSlots(a) :
          WorkDirSettable(heap[d].kind) =>
              heap[d].WorkDir = IF OwnContext(heap[d].kind) # "" THEN OwnContext(heap[d].kind)
                                ELSE heap[a].WorkDir
    /\ \A a, b \in DOMAIN heap : \A da \in DepSlots(a), db \in DepSlots(b) :
          (/\ heap[da].kind = heap[db].kind
           /\ WorkDirSettable(heap[da].kind)
           /\ heap[a].WorkDir # "" /\ heap[b].WorkDir # ""
           /\ heap[a].WorkDir # heap[b].WorkDir)
          => (da = db <=> OwnContext(heap[da].kind) # "")

C12_Witness ==
    \E a, b \in DOMAIN heap :
        /\ heap[a].kind = "adp" /\ heap[b].kind = "adp"
        /\ heap[a].WorkDir # "" /\ heap[b].WorkDir # ""
        /\ heap[a].WorkDir # heap[b].WorkDir
        /\ heap[a].fields["ListerProvider"] # 0
        /\ heap[a].fields["ListerProvider"] = heap[b].fields["ListerProvider"]
        /\ heap[a].fields["ChildProvider"] # 0 /\ heap[b].fields["ChildProvider"] # 0
        /\ heap[heap[a].fields["ChildProvider"]].kind = "child-adp"
        /\ heap[heap[b].fields["ChildProvider"]].kind = "child-adp"
        /\ heap[a].fields["ChildProvider"] # heap[b].fields["ChildProvider"]
        /\ heap[heap[a].fields["ChildProvider"]].WorkDir = heap[a].WorkDir
        /\ heap[heap[b].fields["ChildProvider"]].WorkDir = heap[b].WorkDir

\* An external call of NewAdapter for an id without a registered factory.
GetUnknown(t, in) == ToLower(in[1]) \notin DOMAIN factories /\ NewAdapter(t, in[1], in[2], MaxGets)

\* C13 as stated: a call for an adapter id without a registered factory
\* returns the unknown-adapter error and leaves the factory table and the
\* cache unchanged.
C13_UnknownAdapter ==
    [][\A t \in Threads, in \in GetInputs :
          GetUnknown(t, in) =>
              /\ result'[t] = Err("unknown adapter", "")
              /\ factories' = factories /\ adapters' = adapters]_vars

\* C13: on a registry with a SearchMap, a call for an adapter id without a
\* registered factory returns the unknown-adapter error; on a registry
\* without one it returns the no-SearchMap error; both leave the factory
\* table and the cache unchanged.
C13_UnknownAdapterAfterSearchMap ==
    [][\A t \in Threads, in \in GetInputs :
          GetUnknown(t, in) =>
              /\ result'[t] = Err(IF world.set THEN "unknown adapter" ELSE "no SearchMap configured", "")
              /\ stack'[t] = << >>
              /\ factories' = factories /\ adapters' = adapters /\ heap' = heap]_vars

C13_Witness ==
    /\ world.set
    /\ result["t1"] = Err("unknown adapter", "")
    /\ gets = 1
    /\ "adp" \notin DOMAIN factories
    /\ adapters = EmptyMap

----------------------------------------------------------------------------
(* Loading specification *)

\* Calls that name a config by full key, by short key and by a name no file
\* has, for adapters with and without item configuration.
LoadInputs ==
    ({"adp"} \X { << >>, << "inst1" >>, << "items/inst1" >>, << "nope" >> })
    \cup {<< "child-adp", << >> >>, << "lister-adp", << "inst1" >> >>}

LoadNext ==
    \/ Setup(LoadWorlds)
    \/ \E in \in LoadInputs : NewAdapter("t1", in[1], in[2], MaxLoadGets)
    \/ \E t \in Threads : Step(t)

LoadSpec == Init /\ [][LoadNext]_vars

\* An external call on a registry that has a SearchMap and the factory.
GetKnown(t, in) ==
    /\ world.set
    /\ ToLower(in[1]) \in DOMAIN factories
    /\ NewAdapter(t, in[1], in[2], MaxLoadGets)

\* C14: in a call, a config of the adapter or of the item that is missing
\* leaves the call without a config of that level, while one that does not
\* decode or whose name is ambiguous ends the call with an error, the cache
\* untouched.
C14_MissingConfigTolerated ==
    [][\A t \in Threads, in \in LoadInputs :
          GetKnown(t, in) =>
              LET lm == Load(world, in[1])
                  li == LoadItem(world, factories[ToLower(in[1])], in[2])
              IN IF lm.err \in {"decode", "ambiguous"} \/ li.err \in {"decode", "ambiguous"}
                 THEN /\ result'[t].err # "" /\ result'[t].inst = 0
                      /\ stack'[t] = << >>
                      /\ adapters' = adapters /\ heap' = heap
                 ELSE /\ Len(stack'[t]) = 1
                      /\ stack'[t][1].meta = (IF lm.err = "notexist" THEN NilMeta ELSE lm.meta)
                      /\ stack'[t][1].itemMeta = (IF li.err = "notexist" THEN NilMeta ELSE li.meta)
                      /\ result'[t] = result[t]]_vars

C14_Witness ==
    /\ world.set
    /\ world.extra = {"other/inst1"}
    /\ world.broken = {} /\ world.removed = {}
    /\ "adp" \in DOMAIN factories
    /\ result["t1"] = Err("failed reading item config", "")
    /\ gets = 1
    /\ adapters = EmptyMap

----------------------------------------------------------------------------
(* Letter-case specification *)

\* An adapter id in two spellings; lister-adp has a config and no
\* dependencies, so every call is an external call without arguments.
CaseIds == {"lister-adp", "LISTER-ADP"}

CaseNext ==
    \/ SetSearchPath(TestTree)
    \/ \E id \in CaseIds : Register(id)
    \/ \E id \in CaseIds : NewAdapter("t1", id, << >>, MaxCaseGets)
    \/ Probe("t1")
    \/ Insert("t1")
    \/ ApplyConfig("t1")
    \/ SetWorkDir("t1")
    \/ Validate("t1")

CaseSpec == Init /\ [][CaseNext]_vars

\* C15: two spellings of an adapter id that differ in letter case address
\* the same factory, and two calls that differ only in the spelling of the
\* id return the same instance.
C15_CaseInsensitiveIds ==
    /\ \A a, b \in CaseIds :
          ToLower(a) = ToLower(b) =>
              /\ IsRegistered(factories, a) <=> IsRegistered(factories, b)
              /\ getFactory(factories, a) = getFactory(factories, b)
    /\ \A r1, r2 \in returned : (r1.id = r2.id /\ r1.item = r2.item) => r1.inst = r2.inst

----------------------------------------------------------------------------
(* Index specification: the SearchMap alone *)

\* The trees of the index specification: basenames shared between
\* directories, one of them with a file at the root, files removed after
\* indexing and a file that is not valid JSON.
IndexWorlds ==
    {[TestTree EXCEPT !.extra = e, !.removed = r, !.broken = b] :
        e \in {{}, {"other/inst1"}, {"other/adp"}, {"x/child-adp"},
               {"x/child-adp", "y/child-adp"}, {"other/inst1", "other/adp"}},
        r \in {{}, {"items/inst1"}, {"adp", "other/inst1"}},
        b \in {{}, {"items/inst2"}}}

\* Names a caller resolves: full keys, basenames and a name of no file.
Names == BaseKeys \cup ExtraKeys \cup {"inst1", "inst2", "child-adp", "nope"}

\* SearchMap.Resolve called by name.
ResolveName(name) ==
    /\ world.set
    /\ gets < MaxLookups
    /\ gets' = gets + 1
    /\ lookups' = lookups \cup {[op |-> "Resolve", arg |-> name, out |-> Resolve(world, name)]}
    /\ UNCHANGED << mu, isolated, world, factories, adapters, heap, stack, result, returned,
                    factoryCalls, inserts, reuses, batch >>

IndexNext ==
    \/ \E w \in IndexWorlds : SetSearchPath(w)
    \/ \E name \in Names : ResolveName(name)

IndexSpec == Init /\ [][IndexNext]_vars

\* The full keys of the indexed tree and those whose file has basename b.
Indexed == BaseKeys \cup world.extra

Named(b) == {k \in Indexed : FileAt(world, k).base = b}

\* C16: Resolve(name) returns the path of the full key when name is a full
\* key; otherwise it goes by the files whose basename is name: none gives
\* not-found, one gives that file's path, two or more give the
\* ambiguous-reference error that names every one of them.
C16_ResolveFullThenShort ==
    \A l \in lookups : l.op = "Resolve" =>
        IF l.arg \in Indexed THEN l.out.err = "" /\ l.out.path = l.arg
        ELSE IF Named(l.arg) = {} THEN l.out.err = "notexist"
        ELSE IF Cardinality(Named(l.arg)) = 1
        THEN l.out.err = "" /\ l.out.path \in Named(l.arg)
        ELSE l.out.err = "ambiguous" /\ l.out.candidates = Named(l.arg)

\* A basename of two files was resolved and so was a full key that is also
\* the basename of two files.
C16_Witness ==
    /\ \E l \in lookups : l.op = "Resolve" /\ l.out.err = "ambiguous"
                           /\ Cardinality(l.out.candidates) = 2
    /\ \E l \in lookups : l.op = "Resolve" /\ l.arg \in Indexed
                           /\ Cardinality(Named(l.arg)) = 2 /\ l.out.path = l.arg

\* Pairs of indexed files in different directories with one basename.
SharedBasename ==
    {p \in Indexed \X Indexed :
        /\ p[1] # p[2]
        /\ FileAt(world, p[1]).base = FileAt(world, p[2]).base
        /\ FileAt(world, p[1]).dir # FileAt(world, p[2]).dir}

\* C17 as stated: whenever two files in different directories share a
\* basename, resolving the basename is ambiguous and lists both paths, and
\* resolving the full key of either gives that file's path.
C17_SharedBasenameAmbiguous ==
    \A l \in lookups : l.op = "Resolve" =>
        \A p \in SharedBasename :
            /\ l.arg = FileAt(world, p[1]).base =>
                   l.out.err = "ambiguous" /\ {p[1], p[2]} \subseteq l.out.candidates
            /\ l.arg = p[1] => l.out.err = "" /\ l.out.path = p[1]

\* C17: the same for a basename that is not itself a full key; a basename
\* that is the full key of a file at the root resolves to that file.
C17_SharedBasenameBelowRoot ==
    \A l \in lookups : l.op = "Resolve" =>
        \A p \in SharedBasename :
            /\ l.arg = FileAt(world, p[1]).base =>
                   IF l.arg \in Indexed
                   THEN l.out.err = "" /\ l.out.path = l.arg
                   ELSE l.out.err = "ambiguous" /\ {p[1], p[2]} \subseteq l.out.candidates
            /\ l.arg = p[1] => l.out.err = "" /\ l.out.path = p[1]

\* The basename of two files below the root and the full key of one of them
\* were both resolved.
C17_Witness ==
    \E p \in SharedBasename :
        /\ FileAt(world, p[1]).base \notin Indexed
        /\ \E l \in lookups : l.op = "Resolve" /\ l.arg = FileAt(world, p[1]).base
                               /\ l.out.err = "ambiguous"
        /\ \E l \in lookups : l.op = "Resolve" /\ l.arg = p[1] /\ l.out.path = p[1]

----------------------------------------------------------------------------
(* Header specification: SearchMap.LoadAll *)

\* The trees of the header specification: files of several adapters, one of
\* them spelled in capitals, files removed after indexing and a file that is
\* not valid JSON.
HeaderWorlds ==
    {[TestTree EXCEPT !.extra = e, !.removed = r, !.broken = b] :
        e \in {{}, {"other/inst1"}, {"other/adp"}, {"x/child-adp"}},
        r \in {{}, {"items/inst1"}, {"adp", "other/inst1"}},
        b \in {{}, {"items/inst2"}}}

\* Adapter-id filters a caller passes to LoadAll.
Filters == {"", "adp", "ADP", "child-adp", "nope"}

\* SearchMap.LoadAll called with a filter; ranging over sm.Full yields the
\* keys in any order.
LoadAllHeaders(adapterID) ==
    /\ world.set
    /\ gets < MaxLoadAlls
    /\ gets' = gets + 1
    /\ \E it \in Iterations(DOMAIN Full(Files(world))) :
         lookups' = lookups \cup
            {[op |-> "LoadAll", arg |-> adapterID, out |-> LoadAll(world, it, adapterID)]}
    /\ UNCHANGED << mu, isolated, world, factories, adapters, heap, stack, result, returned,
                    factoryCalls, inserts, reuses, batch >>

HeaderNext ==
    \/ \E w \in HeaderWorlds : SetSearchPath(w)
    \/ \E adapterID \in Filters : LoadAllHeaders(adapterID)

HeaderSpec == Init /\ [][HeaderNext]_vars

\* The indexed files that are still there, and those of them that do not
\* decode.
Present == Indexed \ world.removed

Undecodable == Present \cap world.broken

\* The entries a filter selects: all of them for the empty filter.
Selected(f) ==
    {k \in Present :
        f = "" \/ ToLower(FileAt(world, k).adapter) = ToLower(f)}

\* ks lists the set S in ascending order of full key, each key once.
AscendingListOf(ks, S) ==
    /\ {ks[i] : i \in DOMAIN ks} = S
    /\ \A i, j \in DOMAIN ks : i < j => Rank(ks[i]) < Rank(ks[j])

\* C18: LoadAll returns the headers in ascending order of full key, returns
\* the same sequence when called again on the unchanged index and files,
\* leaves out the entries whose file is gone without failing, and under a
\* filter returns exactly the entries whose adapter id equals the filter
\* without regard to letter case.  A present file that does not decode
\* fails the call.
C18_LoadAllSortedStableFiltered ==
    /\ \A l \in lookups : l.op = "LoadAll" =>
          IF Undecodable # {} THEN l.out.err # ""
          ELSE /\ l.out.err = ""
               /\ \E ks \in [1..Len(l.out.metas) -> Selected(l.arg)] :
                     /\ AscendingListOf(ks, Selected(l.arg))
                     /\ \A i \in DOMAIN ks :
                           l.out.metas[i] = LoadFile(Files(world)[ks[i]], contextMap(world)).meta
    /\ \A l1, l2 \in lookups :
          (l1.op = "LoadAll" /\ l2.op = "LoadAll" /\ l1.arg = l2.arg) => l1.out = l2.out

\* A filtered call returned three headers, one of a file whose adapter id is
\* spelled in capitals, while an indexed file of that adapter was gone; an
\* unfiltered call on the same tree returned more.
C18_Witness ==
    /\ world.set /\ world.removed = {"items/inst1"} /\ "other/inst1" \in world.extra
    /\ \E l \in lookups : l.op = "LoadAll" /\ l.arg = "adp" /\ l.out.err = ""
                           /\ Len(l.out.metas) = 3 /\ l.out.metas[3].Adapter = "ADP"
    /\ \E l \in lookups : l.op = "LoadAll" /\ l.arg = "" /\ Len(l.out.metas) = 4

----------------------------------------------------------------------------
(* Batch specification: LoadAllAdaptersFrom *)

\* The trees of the batch specification: the tree of testdata, and the tree
\* with a second adp.json or a second inst1.json in another directory.
BatchWorlds == {[TestTree EXCEPT !.extra = e] : e \in {{}, {"other/adp"}, {"other/inst1"}}}

\* The type parameter T: any, or an interface only ListerAdp implements.
Types == {"any", "Lister"}

Implements(kind, T) == T = "any" \/ kind = "lister-adp"

\* LoadAllAdaptersFrom, lines 645-650: the headers of the adapter's entries.
StartBatch(adapterID, T, la) ==
    IF la.err # "" THEN [NoBatch EXCEPT !.done = TRUE, !.adapterID = adapterID, !.T = T,
                                        !.err = la.err]
    ELSE [NoBatch EXCEPT !.active = la.metas # << >>, !.done = la.metas = << >>,
                         !.adapterID = adapterID, !.T = T,
                         !.entries = la.metas, !.todo = la.metas]

LoadAllAdapters(t, adapterID, T) ==
    /\ world.set
    /\ ~batch.active
    /\ stack[t] = << >>
    /\ gets < MaxBatches
    /\ gets' = gets + 1
    /\ \E it \in Iterations(DOMAIN Full(Files(world))) :
         batch' = StartBatch(adapterID, T, LoadAll(world, it, adapterID))
    /\ UNCHANGED << mu, isolated, world, factories, adapters, heap, stack, result, returned,
                    factoryCalls, inserts, reuses, lookups >>

\* Line 653: NewAdapterAsFrom[T](r, adapterID, meta.Name) for the next
\* header, up to the cache probe.
BatchGet(t) ==
    /\ batch.active /\ ~batch.waiting
    /\ stack[t] = << >>
    /\ batch' = [batch EXCEPT !.waiting = TRUE]
    /\ CanRLock(mu)
    /\ LET e == Enter(world, factories, batch.adapterID, "", << Head(batch.todo).Name >>) IN
       /\ mu' = Entered(mu, t, e)
       /\ IF e.err # ""
          THEN /\ result' = [result EXCEPT ![t] = Err(e.err, "")]
               /\ UNCHANGED << stack, factoryCalls >>
          ELSE /\ stack' = [stack EXCEPT ![t] = << e.frame >>]
               /\ factoryCalls' = ZeroFacCalled(factoryCalls, e.frame.regKey)
               /\ UNCHANGED result
    /\ UNCHANGED << isolated, world, factories, adapters, heap, gets, returned, inserts, reuses,
                    lookups >>

\* Lines 654-658: a failure is logged and the loop goes on; the adapter of
\* a success is appended.  Line 660 when no header is left.
Collected(b, entry, res, ok) ==
    [b EXCEPT !.waiting = FALSE, !.todo = Tail(@),
              !.out = IF ok THEN Append(@, [inst |-> res.inst, entry |-> entry,
                                         n |-> Len(b.entries) - Len(b.todo) + 1]) ELSE @,
              !.skipped = IF ok THEN @ ELSE Append(@, entry),
              !.active = Tail(b.todo) # << >>, !.done = Tail(b.todo) = << >>]

\* The get of the current header has returned: lines 627-639 and 654-658.
BatchCollect(t) ==
    /\ batch.active /\ batch.waiting
    /\ stack[t] = << >>
    /\ batch' = Collected(batch, Head(batch.todo), result[t],
                          /\ result[t].err = ""
                          /\ Implements(heap[result[t].inst].kind, batch.T))
    /\ UNCHANGED << mu, isolated, world, factories, adapters, heap, stack, result, gets, returned,
                    factoryCalls, inserts, reuses, lookups >>

BatchNext ==
    \/ \E w \in BatchWorlds : SetSearchPath(w)
    \/ \E id \in Kinds : Register(id)
    \/ \E id \in Kinds, T \in Types : LoadAllAdapters("t1", id, T)
    \/ BatchGet("t1")
    \/ BatchCollect("t1")
    \/ Step("t1")

BatchSpec == Init /\ [][BatchNext]_vars

\* The instance holds the config of the entry: the entry's context, or the
\* adapter-level one when the entry has none, and in every field of its
\* spec the entry's payload laid over the adapter-level payload.
BoundTo(inst, adapterMeta, entry) ==
    /\ inst.WorkDir = IF entry.WorkDir # "" THEN entry.WorkDir ELSE adapterMeta.WorkDir
    /\ \A f \in DOMAIN inst.Spec :
          inst.Spec[f] = Overlay(adapterMeta.RawSpec, entry.RawSpec, f)

\* C19: a LoadAllAdaptersFrom call that returned has gone through every
\* entry of the adapter; the adapters it returns are in entry order, one
\* adapter per entry, each constructed without error and each holding the
\* config of its own entry; the entries left out are those whose
\* construction or type assertion failed.
C19_BatchBoundToOwnEntries ==
    (batch.done /\ batch.err = "") =>
        /\ Len(batch.out) + Len(batch.skipped) = Len(batch.entries)
        /\ \A i, j \in DOMAIN batch.out :
              i < j => batch.out[i].n < batch.out[j].n /\ batch.out[i].inst # batch.out[j].inst
        /\ \A i \in DOMAIN batch.out :
              /\ batch.out[i].entry = batch.entries[batch.out[i].n]
              /\ heap[batch.out[i].inst].failed = ""
              /\ Implements(heap[batch.out[i].inst].kind, batch.T)
              /\ BoundTo(heap[batch.out[i].inst], Load(world, batch.adapterID).meta,
                         batch.out[i].entry)

\* The names under which the sink of instance i holds a dependency that no
\* struct field of the adapter takes.
SinkOnly(i) ==
    {k \in DOMAIN heap[i].named : ToCapWords(k) \notin FieldNames(heap[i].kind)}

\* C20: an adapter with the name-keyed sink that was handed, through the
\* sink, a declared dependency no struct field matches does not fail for the
\* want of that field: its construction goes on to succeed.
C20_SinkOrFieldSuffices ==
    \A i \in DOMAIN heap :
        \A k \in SinkOnly(i) :
            /\ Depender(heap[i].kind)
            /\ ~(heap[i].failed = "field not found" /\ heap[i].failedField = ToCapWords(k))

----------------------------------------------------------------------------
(* Cycle specification: adapters that depend on themselves or each other *)

\* The trees of the cycle specification: without a config for the cyclic
\* adapters, and with a peer-adp.json that sets a context.
CycleWorlds == {[TestTree EXCEPT !.extra = e] : e \in {{}, {"peer-adp"}}}

\* The steps of a running get; none of the cyclic adapters has a hook.
CycleStep ==
    \/ Probe("t1")
    \/ Insert("t1")
    \/ ApplyConfig("t1")
    \/ SetWorkDir("t1")
    \/ ResolveDep("t1")
    \/ Validate("t1")

CycleNext ==
    \/ \E w \in CycleWorlds : SetSearchPath(w)
    \/ \E id \in CycleKinds : Register(id)
    \/ \E id \in CycleKinds : NewAdapter("t1", id, << >>, MaxCycleGets)
    \/ CycleStep

\* A get runs on the goroutine of its caller, which is scheduled until the
\* call returns.
CycleSpec == Init /\ [][CycleNext]_vars /\ WF_vars(CycleStep)

\* C21: a get on adapters whose dependencies form a cycle terminates: the
\* request that comes back to an adapter under construction finds its
\* instance in the cache and returns it.
C21_CyclicGetTerminates == (stack["t1"] # << >>) ~> (stack["t1"] = << >>)

\* A get has returned two instances that hold each other.
C21_Witness ==
    /\ stack["t1"] = << >>
    /\ result["t1"].err = "" /\ result["t1"].inst # 0
    /\ \E i, j \in DOMAIN heap :
          /\ i # j
          /\ heap[i].kind = "node-adp" /\ heap[j].kind = "peer-adp"
          /\ heap[i].fields["Next"] = j /\ heap[j].fields["Next"] = i

----------------------------------------------------------------------------
(* Context specification: SearchMap.Load and the context of a header *)

\* The override tables of the context specification: none, a relative value
\* for the name a blank header takes from its file, an absolute value for a
\* name a header states, and an empty value.
ContextMaps ==
    { EmptyMap,
      [n \in {"inst1"} |-> "./ctx-env"],
      [n \in {"inst2"} |-> "/abs"],
      [n \in {"lister-adp"} |-> ""] }

\* The trees of the context specification: files in different directories
\* with one relative context, and a file with an absolute context.
ContextWorlds ==
    {[TestTree EXCEPT !.extra = e, !.contextMap = m] :
        e \in {{}, {"other/inst1"}, {"x/child-adp", "y/child-adp"}},
        m \in ContextMaps}

\* SearchMap.Load called by full key.
LoadName(name) ==
    /\ world.set
    /\ gets < MaxLoads
    /\ gets' = gets + 1
    /\ lookups' = lookups \cup {[op |-> "Load", arg |-> name, out |-> Load(world, name)]}
    /\ UNCHANGED << mu, isolated, world, factories, adapters, heap, stack, result, returned,
                    factoryCalls, inserts, reuses, batch >>

ContextNext ==
    \/ \E w \in ContextWorlds : SetSearchPath(w)
    \/ \E name \in BaseKeys \cup ExtraKeys : LoadName(name)

ContextSpec == Init /\ [][ContextNext]_vars

\* The loads of an indexed file, by full key, that gave a header.
Loads == {l \in lookups : l.op = "Load" /\ l.arg \in Indexed /\ l.out.err = ""}

\* The name a header goes by: the decoded one, or the basename for a blank.
HeaderName(k) ==
    IF FileAt(world, k).name = "" THEN FileAt(world, k).base ELSE FileAt(world, k).name

\* The loads of files whose context no override replaces.
PlainLoads == {l \in Loads : HeaderName(l.arg) \notin DOMAIN world.contextMap}

OverriddenLoads == Loads \ PlainLoads

\* C30: the override table is looked up by the header's name after a blank
\* name was replaced by the basename, and the value found replaces the
\* context before it is made absolute: a relative value is anchored at the
\* directory of the config file, an absolute one is kept.
C30_OverrideByNameThenAnchored ==
    \A l \in OverriddenLoads :
        /\ l.out.meta.Name = HeaderName(l.arg)
        /\ l.out.meta.WorkDir =
              CASE world.contextMap[HeaderName(l.arg)] = "./ctx-env" ->
                     FileAt(world, l.arg).dir \o "/ctx-env"
                [] world.contextMap[HeaderName(l.arg)] = "" -> FileAt(world, l.arg).dir
                [] OTHER -> world.contextMap[HeaderName(l.arg)]

\* A file with a blank name was loaded under a relative override of its
\* basename.
C30_Witness ==
    \E l \in OverriddenLoads :
        /\ FileAt(world, l.arg).name = ""
        /\ world.contextMap[HeaderName(l.arg)] = "./ctx-env"
        /\ l.out.meta.WorkDir = "/cfg/items/ctx-env"

----------------------------------------------------------------------------
(* Order of the lifecycle *)

\* The activation that constructs instance i, if one does.
Constructing(i) == {fr \in Frames : fr.zero = i}

\* The adapter-level payload of an activation does not decode.
AdapterPayloadBad(fr) ==
    /\ ~fr.meta.isNil /\ ~fr.meta.RawSpec.empty /\ Configurable(fr.kind)
    /\ \E f \in DOMAIN fr.meta.RawSpec.obj \cap SpecFields(fr.kind) :
          fr.meta.RawSpec.obj[f] = Mistyped

\* The fields of the adapter of an activation for which either pass of the
\* dependency injection has a dependency.
Injectable(fr) ==
    {n \in FieldNames(fr.kind) :
        \E p \in {2, 4} : ~DepsAt(fr, p).isNil /\ n \in DOMAIN DepsAt(fr, p).m}

\* One step keeps the order of the lifecycle of the instance a, which it
\* turns into b while fs are the activations constructing it.
InOrder(a, b, fs) ==
    /\ a.failed # "" => b = a
    /\ (b.nDecode # a.nDecode \/ b.nItemDecode # a.nItemDecode \/ b.Spec # a.Spec) =>
          a.stage = "zero" /\ a.nDecode = 0 /\ a.nItemDecode = 0
    /\ (b.nDecode # a.nDecode /\ \E fr \in fs : AdapterPayloadBad(fr)) =>
          b.nItemDecode = 0 /\ b.failed # "" /\ b.stage = "zero"
    /\ b.stage # a.stage =>
          \/ a.stage = "zero" /\ b.stage = "configured"
          \/ a.stage = "configured" /\ b.stage = "contextualized"
          \/ a.stage = "contextualized" /\ b.stage \in {"validated", "ready"}
          \/ a.stage = "validated" /\ b.stage = "ready"
    /\ b.WorkDir # a.WorkDir => a.stage = "configured"
    /\ (b.fields # a.fields \/ b.named # a.named) =>
          a.stage = "contextualized" /\ a.nValidate = 0
    /\ b.nValidate # a.nValidate =>
          /\ a.stage = "contextualized" /\ a.nValidate = 0
          /\ \A fr \in fs : \A n \in Injectable(fr) : a.fields[n] # 0
    /\ b.nHydrate # a.nHydrate =>
          a.stage = "validated" /\ a.nValidate = 1 /\ a.nHydrate = 0
    /\ b.stage = "ready" => b.failed = "" /\ b.nValidate = 1

\* C23: a construction on the miss path runs its steps in the order cache
\* insert, adapter-level decode, item-level decode, working context,
\* adapter-level injection, item-level injection, validation, first-use
\* hook; a step that fails is the last step of the construction.
C23_LifecycleOrder ==
    [][/\ \A i \in DOMAIN heap : InOrder(heap[i], heap'[i], Constructing(i))
       /\ \A t \in Threads : \A j \in 1..Len(stack[t]) :
             (j <= Len(stack'[t]) /\ stack[t][j].zero # 0
                                  /\ stack'[t][j].zero = stack[t][j].zero)
             => stack'[t][j].pos >= stack[t][j].pos]_vars

\* An instance went through every step: both payloads decoded, the context
\* set, dependencies injected in both passes, validated and hydrated.
C23_Witness ==
    \E i \in DOMAIN heap :
        /\ heap[i].stage = "ready" /\ heap[i].failed = ""
        /\ heap[i].nDecode = 1 /\ heap[i].nItemDecode = 1
        /\ heap[i].WorkDir # ""
        /\ heap[i].kind = "adp"
        /\ heap[i].fields["ListerProvider"] # 0 /\ heap[i].fields["ChildProvider"] # 0
        /\ heap[i].nValidate = 1 /\ heap[i].nHydrate = 1

----------------------------------------------------------------------------
(* Override specification: one key declared at both levels *)

\* The trees of the override specification: adp.json and items/inst1.json
\* both declare ListerProvider, each naming one of the two listers.
Listers == {"lister-adp", "child-adp"}

OverrideWorlds ==
    {[TestTree EXCEPT !.adpDeps = MkMap([ListerProvider |-> DepRef(a)]),
                      !.inst1Deps = MkMap([ListerProvider |-> DepRef(i)])] :
        a \in Listers, i \in Listers}

OverrideNext ==
    \/ \E w \in OverrideWorlds : SetSearchPath(w)
    \/ \E id \in Kinds : Register(id)
    \/ NewAdapter("t1", "adp", << "items/inst1" >>, MaxOverrideGets)
    \/ Step("t1")

OverrideSpec == Init /\ [][OverrideNext]_vars

\* The keys both levels of an activation declare.
DeclaredTwice(fr) ==
    IF ConfigDeps(fr.meta).isNil \/ ConfigDeps(fr.itemMeta).isNil THEN {}
    ELSE DOMAIN ConfigDeps(fr.meta).m \cap DOMAIN ConfigDeps(fr.itemMeta).m

\* The item-level pass of an activation has injected key n.
ItemApplied(fr, n) == fr.pos = 5 \/ (fr.pos = 4 /\ n \notin fr.todo /\ fr.cur # n)

\* The adapter a field of instance i holds an instance of, "" for nil.
Holds(i, n) == IF heap[i].fields[n] = 0 THEN "" ELSE heap[heap[i].fields[n]].kind

\* C24: for a key both levels declare, the field holds nothing or the
\* adapter-level dependency until the item-level pass injects the key, and
\* the item-level dependency from then on: an instance that is ready holds
\* the dependency the item-level config declares.
C24_ItemDeclarationAppliedLast ==
    \A fr \in Frames :
        (fr.zero # 0 /\ heap[fr.zero].failed = "") =>
            \A n \in DeclaredTwice(fr) \cap FieldNames(fr.kind) :
                IF ItemApplied(fr, n)
                THEN Holds(fr.zero, n) = ToLower(fr.itemMeta.Dependencies.m[n].Adapter)
                ELSE Holds(fr.zero, n) \in {"", ToLower(fr.meta.Dependencies.m[n].Adapter)}

\* Both levels declare ListerProvider with different adapters, and the
\* returned instance holds the one of the item level.
C24_Witness ==
    /\ world.set
    /\ world.adpDeps.m["ListerProvider"].Adapter = "lister-adp"
    /\ world.inst1Deps.m["ListerProvider"].Adapter = "child-adp"
    /\ result["t1"].inst # 0
    /\ heap[result["t1"].inst].stage = "ready"
    /\ Holds(result["t1"].inst, "ListerProvider") = "child-adp"

----------------------------------------------------------------------------
(* Plain specification: an adapter that takes no working context *)

\* The tree of the plain specification: adp.json declares plain-adp, or
\* child-adp, for ChildProvider, so that the items of adp request it from
\* different contexts.
PlainWorlds ==
    {[TestTree EXCEPT !.adpDeps = MkMap([ListerProvider |-> DepRef("lister-adp"),
                                         ChildProvider |-> DepRef(c)])] :
        c \in {"plain-adp", "child-adp"}}

PlainInputs ==
    { << "adp", << "items/inst1" >> >>, << "adp", << "inst2" >> >>, << "plain-adp", << >> >> }

PlainNext ==
    \/ \E w \in PlainWorlds : SetSearchPath(w)
    \/ \E id \in Kinds \cup {"plain-adp"} : Register(id)
    \/ \E in \in PlainInputs : NewAdapter("t1", in[1], in[2], MaxPlainGets)
    \/ Step("t1")

PlainSpec == Init /\ [][PlainNext]_vars

\* The key of a request without the context suffix.
BaseKey(r) == IF r.item # "" THEN r.id \o "__" \o r.item ELSE r.id

\* C25: the key of a request ends in the context hash exactly when the
\* adapter takes a working context and the resolved context is not empty;
\* requests for an adapter that takes none, with one id and item name,
\* return one instance whatever context they were made from.
C25_ContextSuffixOnlyIfContextAware ==
    /\ \A r \in returned :
          r.key = IF WorkDirSettable(r.kind) /\ r.ctx # ""
                  THEN BaseKey(r) \o "__" \o Fnv64a(BaseKey(r), r.ctx)
                  ELSE BaseKey(r)
    /\ \A r1, r2 \in returned :
          (~WorkDirSettable(r1.kind) /\ r1.id = r2.id /\ r1.item = r2.item)
          => r1.inst = r2.inst

\* plain-adp was returned to requests made from two different contexts, and
\* they got the same instance.
C25_Witness ==
    \E r1, r2 \in returned :
        /\ r1.kind = "plain-adp" /\ r2.kind = "plain-adp"
        /\ r1.ctx # r2.ctx /\ r1.ctx # "" /\ r2.ctx # ""
        /\ r1.inst = r2.inst

----------------------------------------------------------------------------
(* Inference specification: findStructDeps on struct types *)

\* The tags of the inference specification, as token sequences: no tag, the
\* flag alone in two spellings, an id alone, an id with the flag, the flag in
\* first place with an id, and an empty first token with the flag.
Tags ==
    { << >>, << "required" >>, << "REQUIRED" >>, << "child-adp" >>,
      << "child-adp", "required" >>, << "required", "child-adp" >>, << "", "required" >> }

\* Struct types of one or two fields A and B.
FieldOf(n) == {[name |-> n, tag |-> g, exported |-> e, type |-> "Lister"] :
                  g \in Tags, e \in BOOLEAN}

Structs ==
    {<< >>} \cup {<< a >> : a \in FieldOf("A")}
            \cup {<< a, b >> : a \in FieldOf("A"), b \in FieldOf("B")}

\* findStructDeps called on an adapter of a struct type.
Infer(fields) ==
    /\ gets < MaxInfers
    /\ gets' = gets + 1
    /\ lookups' = lookups \cup
          {[op |-> "findStructDeps", arg |-> fields, out |-> findStructDepsOf(fields)]}
    /\ UNCHANGED << mu, isolated, world, factories, adapters, heap, stack, result, returned,
                    factoryCalls, inserts, reuses, batch >>

InferNext == \E fields \in Structs : Infer(fields)

InferSpec == Init /\ [][InferNext]_vars

\* The fields of a struct type a call was made on.
FieldsOf(l) == {l.arg[i] : i \in 1..Len(l.arg)}

\* The field is exported and tagged, and its tag is not the flag alone.
NamesAdapter(f) ==
    /\ f.exported
    /\ Len(f.tag) >= 1
    /\ Len(f.tag) = 1 => f.tag[1] \notin {"required", "REQUIRED"}

\* C26 as stated: every exported field with a tag of two or more tokens, or
\* of one token that is not the flag, has an entry under its name whose
\* adapter id is the first token; no other field has an entry.
C26_InferredFromTags ==
    \A l \in lookups : l.op = "findStructDeps" =>
        /\ ~l.out.isNil
        /\ DOMAIN l.out.m = {f.name : f \in {g \in FieldsOf(l) : NamesAdapter(g)}}
        /\ \A f \in FieldsOf(l) :
              NamesAdapter(f) => l.out.m[f.name] = DepRef(f.tag[1])

\* C26: the same, except that a field whose first token is empty has no
\* entry.
C26_InferredFromNonEmptyFirstToken ==
    \A l \in lookups : l.op = "findStructDeps" =>
        /\ ~l.out.isNil
        /\ DOMAIN l.out.m =
              {f.name : f \in {g \in FieldsOf(l) : NamesAdapter(g) /\ g.tag[1] # ""}}
        /\ \A f \in FieldsOf(l) :
              (NamesAdapter(f) /\ f.tag[1] # "") => l.out.m[f.name] = DepRef(f.tag[1])

\* A struct with a field tagged with the flag in first place and an id, and
\* a field tagged with the flag alone: the first has an entry for the adapter
\* "required", the second has none.
C26_Witness ==
    \E l \in lookups :
        /\ l.op = "findStructDeps" /\ Len(l.arg) = 2
        /\ l.arg[1].exported /\ l.arg[1].tag = << "required", "child-adp" >>
        /\ l.arg[2].exported /\ l.arg[2].tag = << "REQUIRED" >>
        /\ DOMAIN l.out.m = {"A"} /\ l.out.m["A"].Adapter = "required"

----------------------------------------------------------------------------
(* Merge specification: mergeDeps on pairs of maps *)

\* The maps of the merge specification: nil, empty, and every map over the
\* keys A and B to three references.
Refs == {DepRef("lister-adp"), DepRef("child-adp"), DepRef("plain-adp")}

DepMaps == {NilMap} \cup {MkMap(m) : m \in UNION {[D -> Refs] : D \in SUBSET {"A", "B"}}}

\* A call of mergeDeps: what it returns and what it leaves in its two
\* arguments, which it only ranges over.
Merged(config, inferred) ==
    [out |-> mergeDeps(config, inferred), config |-> config, inferred |-> inferred]

Merge(config, inferred) ==
    /\ gets < MaxMerges
    /\ gets' = gets + 1
    /\ lookups' = lookups \cup
          {[op |-> "mergeDeps", arg |-> << config, inferred >>, out |-> Merged(config, inferred)]}
    /\ UNCHANGED << mu, isolated, world, factories, adapters, heap, stack, result, returned,
                    factoryCalls, inserts, reuses, batch >>

MergeNext == \E config \in DepMaps, inferred \in DepMaps : Merge(config, inferred)

MergeSpec == Init /\ [][MergeNext]_vars

\* C27: the merge of a declared and an inferred map has the union of their
\* keys, with the declared entry where there is one and the inferred entry
\* elsewhere; it is nil only when both maps are nil; both maps are as they
\* were.
C27_MergeDeclaredWins ==
    \A l \in lookups : l.op = "mergeDeps" =>
        /\ l.out.out.isNil <=> (l.arg[1].isNil /\ l.arg[2].isNil)
        /\ DOMAIN l.out.out.m = DOMAIN l.arg[1].m \cup DOMAIN l.arg[2].m
        /\ \A k \in DOMAIN l.out.out.m :
              l.out.out.m[k] = IF k \in DOMAIN l.arg[1].m THEN l.arg[1].m[k] ELSE l.arg[2].m[k]
        /\ l.out.config = l.arg[1] /\ l.out.inferred = l.arg[2]

\* Two maps with a key in common under different references and a key of
\* the inferred map alone were merged.
C27_Witness ==
    \E l \in lookups :
        /\ l.op = "mergeDeps"
        /\ DOMAIN l.arg[1].m = {"A"} /\ DOMAIN l.arg[2].m = {"A", "B"}
        /\ l.arg[1].m["A"] # l.arg[2].m["A"]
        /\ l.out.out.m["A"] = l.arg[1].m["A"] /\ l.out.out.m["B"] = l.arg[2].m["B"]

----------------------------------------------------------------------------
(* Argument specification: dependency references with a name and arguments *)

\* The references of the argument specification: to an adapter, with or
\* without a name, with or without further arguments.
RefsTo(adapter) ==
    {[Adapter |-> adapter, Name |-> n, Args |-> a] :
        n \in {"", "inst2"}, a \in {<< >>, << "a", "b" >>}}

\* The trees of the argument specification: adp.json declares its
\* ListerProvider, lister-adp.json declares nothing or, for its sink, a
\* dependency on child-adp.
ArgsWorlds ==
    {[TestTree EXCEPT !.adpDeps = MkMap([ListerProvider |-> r]), !.listerDeps = l] :
        r \in RefsTo("lister-adp"),
        l \in {NilMap} \cup {MkMap([extra |-> e]) : e \in RefsTo("child-adp")}}

ArgsNext ==
    \/ \E w \in ArgsWorlds : SetSearchPath(w)
    \/ \E id \in Kinds : Register(id)
    \/ \E id \in {"adp", "lister-adp"} : NewAdapter("t1", id, << >>, MaxArgsGets)
    \/ Step("t1")

ArgsSpec == Init /\ [][ArgsNext]_vars

\* The requests for a dependency that are under way: caller and depth of
\* the activation that was entered for it.
Nested == {p \in Positions : p[2] > 1}

\* The reference a nested request was made for.
RefOf(p) ==
    DepsAt(stack[p[1]][p[2] - 1], stack[p[1]][p[2] - 1].pos).m[stack[p[1]][p[2] - 1].cur]

\* The argument list the claim gives a reference.
NameThenArgs(ref) == IF ref.Name # "" THEN << ref.Name >> \o ref.Args ELSE ref.Args

\* C28: a dependency is requested, on the path of the sink and on the path
\* of the fields alike, for the adapter of its reference with the name, if
\* there is one, in front of the arguments of the reference, and with the
\* resolved context of the parent as default context; the two ways of
\* building the list agree and leave the reference as it was.
C28_DependencyArguments ==
    /\ \A p \in Nested :
          /\ stack[p[1]][p[2]].adapterID = RefOf(p).Adapter
          /\ stack[p[1]][p[2]].args = NameThenArgs(RefOf(p))
          /\ stack[p[1]][p[2]].wd =
                IF ContextOf(stack[p[1]][p[2]].itemMeta) # ""
                THEN ContextOf(stack[p[1]][p[2]].itemMeta)
                ELSE IF ContextOf(stack[p[1]][p[2]].meta) # ""
                THEN ContextOf(stack[p[1]][p[2]].meta)
                ELSE stack[p[1]][p[2] - 1].wd
    /\ \A fr \in Frames :
          \A q \in {1, 2, 3, 4} : \A k \in TodoAt(fr, q) :
              /\ depArgs(DepsAt(fr, q).m[k]).args = childArgs(DepsAt(fr, q).m[k]).args
              /\ depArgs(DepsAt(fr, q).m[k]).ref = DepsAt(fr, q).m[k]
              /\ childArgs(DepsAt(fr, q).m[k]).ref = DepsAt(fr, q).m[k]

\* A dependency with a name and arguments is being requested through the
\* sink, by a parent that is itself a dependency requested through a field
\* with a name and arguments.
C28_Witness ==
    \E p \in Nested :
        /\ p[2] = 3
        /\ IsMapPos(stack[p[1]][2].pos) /\ ~IsMapPos(stack[p[1]][1].pos)
        /\ stack[p[1]][3].args = << "inst2", "a", "b" >>
        /\ stack[p[1]][2].args = << "inst2", "a", "b" >>
        /\ stack[p[1]][3].wd = stack[p[1]][2].wd

----------------------------------------------------------------------------
(* Field specification: declared dependencies a field cannot take *)

\* The trees of the field specification: adp.json or inst1.json declares a
\* dependency under a key no field of Adp has, under the key of the field
\* that is not settable, under the key of the string field, or an adapter
\* without a List method for a Lister field; lister-adp.json declares
\* nothing or a dependency its struct has no field for.
FieldDeps ==
    { MkMap([ListerProvider |-> DepRef("lister-adp")]),
      MkMap([ListerProvider |-> DepRef("lister-adp"), Missing |-> DepRef("lister-adp")]),
      MkMap([ListerProvider |-> DepRef("lister-adp"), Embedded |-> DepRef("lister-adp")]),
      MkMap([ListerProvider |-> DepRef("lister-adp"), ContextPath |-> DepRef("lister-adp")]),
      MkMap([ListerProvider |-> DepRef("adp")]) }

FieldWorlds ==
    {[TestTree EXCEPT !.adpDeps = a, !.inst1Deps = i, !.listerDeps = l] :
        a \in FieldDeps, i \in {NilMap} \cup FieldDeps,
        l \in {NilMap, MkMap([extra |-> DepRef("child-adp")])}}

FieldNext ==
    \/ \E w \in FieldWorlds : SetSearchPath(w)
    \/ \E id \in Kinds : Register(id)
    \/ \E inp \in {<< >>, << "items/inst1" >>} : NewAdapter("t1", "adp", inp, MaxFieldGets)
    \/ Step("t1")

FieldSpec == Init /\ [][FieldNext]_vars

\* The errors of resolveStructDeps about the field itself.
FieldErrors == {"field not found", "field not settable", "not assignable"}

\* The fields of a kind reflect can set, and the kinds a field of a type takes.
Settable(kind) == {n \in FieldNames(kind) : FieldByName(kind, n).exported}

Takes(type) == IF type = "Lister" THEN {"lister-adp", "child-adp", "plain-adp"} ELSE {}

\* The dependency keys the config of a request declares.
DeclaredKeys(r) == KeysOf(r.declared, FALSE) \cup KeysOf(r.itemDeclared, FALSE)

\* C29: a get that ends with one of the three field errors returns no
\* instance, its error names the field and is wrapped with the id of the
\* adapter whose field it is and with the id that was asked for, and the
\* field is absent, not settable, or of a type the dependency is not
\* assignable to; no field ever holds a dependency it cannot take, and a
\* field that is not settable stays nil; an instance whose injection ran to
\* its end has, for every declared key, a settable field that was assigned.
C29_FieldInjectionFails ==
    /\ \A t \in Threads :
          result[t].err \in FieldErrors =>
            /\ result[t].inst = 0
            /\ result[t].wrapped # << >>
            /\ \E i \in DOMAIN heap :
                  /\ heap[i].failed = result[t].err
                  /\ heap[i].failedField = result[t].field
                  /\ ToLower(Last(result[t].wrapped)) = heap[i].kind
                  /\ \A j \in 1..(Len(result[t].wrapped) - 1) :
                        \E o \in DOMAIN heap :
                            /\ heap[o].kind = ToLower(result[t].wrapped[j])
                            /\ heap[o].failed = "dependency"
                  /\ CASE result[t].err = "field not found" ->
                             result[t].field \notin FieldNames(heap[i].kind)
                       [] result[t].err = "field not settable" ->
                             /\ result[t].field \in FieldNames(heap[i].kind) \ Settable(heap[i].kind)
                             /\ heap[i].fields[result[t].field] = 0
                       [] OTHER ->
                             /\ result[t].field \in Settable(heap[i].kind)
                             /\ \E o \in DOMAIN heap :
                                   heap[o].kind \notin Takes(FieldByName(heap[i].kind, result[t].field).type)
    /\ \A i \in DOMAIN heap : \A n \in FieldNames(heap[i].kind) :
          heap[i].fields[n] # 0 =>
            /\ n \in Settable(heap[i].kind)
            /\ heap[heap[i].fields[n]].kind \in Takes(FieldByName(heap[i].kind, n).type)
    /\ \A r \in returned :
          heap[r.inst].nValidate >= 1 =>
            \A k \in DeclaredKeys(r) :
                /\ ToCapWords(k) \in Settable(r.kind)
                /\ heap[r.inst].fields[ToCapWords(k)] # 0

\* The get of adp with inst1.json ended with the error of the item-level
\* pass about ListerProvider, which keeps the lister the adapter-level pass
\* assigned, wrapped with the adapter id.
C29_Witness ==
    /\ result["t1"].err = "not assignable" /\ result["t1"].field = "ListerProvider"
    /\ result["t1"].wrapped = << "adp" >>
    /\ \E i \in DOMAIN heap :
          /\ heap[i].failed = "not assignable"
          /\ heap[i].fields["ListerProvider"] # 0
          /\ heap[heap[i].fields["ListerProvider"]].kind = "lister-adp"

----------------------------------------------------------------------------
(* The registry lock *)

\* C31: between any two steps of any caller the lock of the registry is
\* free and no fault of the discipline has occurred: every read of the
\* factory table or the cache was made by a holder of the shared lock, every
\* write by the holder of the exclusive lock, and no factory, config load,
\* dependency construction or hook was called by a holder of the lock; so
\* the get of a dependency finds the lock free at its probe and at its
\* insert, whatever its own caller and the other callers are doing.
C31_LockDiscipline ==
    /\ mu.fault = ""
    /\ mu.writer = "" /\ mu.readers = {}
    /\ \A t \in Threads :
          /\ (At(t, "probe") /\ Len(stack[t]) > 1) => CanRLock(mu)
          /\ (At(t, "insert") /\ Len(stack[t]) > 1) => CanLock(mu)

\* A dependency was inserted into the cache by a get issued during the
\* construction of its parent, while another caller is in the middle of a
\* construction of its own.
C31_Witness ==
    \E t, u \in Threads :
        /\ t # u
        /\ Len(stack[t]) = 2 /\ stack[t][2].pc = "config" /\ stack[t][1].pc = "deps"
        /\ stack[u] # << >> /\ stack[u][1].zero # 0

----------------------------------------------------------------------------
(* Isolated specification: gets on a registry other than the default one *)

\* r.SetSearchPath on the isolated registry.
IsoSetSearchPath(w) ==
    /\ ~isolated.world.set
    /\ isolated' = [isolated EXCEPT !.world = w]
    /\ UNCHANGED << mu, lookups, batch, world, factories, adapters, heap, stack, result, gets,
                    returned, factoryCalls, inserts, reuses >>

\* r.Register on the isolated registry.
IsoRegister(adapterID) ==
    /\ isolated' = [isolated EXCEPT !.factories = Put(@, ToLower(adapterID), ToLower(adapterID))]
    /\ UNCHANGED << mu, lookups, batch, world, factories, adapters, heap, stack, result, gets,
                    returned, factoryCalls, inserts, reuses >>

\* r.NewAdapter on the isolated registry, up to the cache probe: the
\* factory and the configs are looked up in r.
IsoNewAdapter(t, adapterID, args) ==
    /\ stack[t] = << >>
    /\ gets < MaxIsoGets
    /\ gets' = gets + 1
    /\ LET e == Enter(isolated.world, isolated.factories, adapterID, "", args) IN
       IF e.err # ""
       THEN /\ result' = [result EXCEPT ![t] = Err(e.err, "")]
            /\ UNCHANGED << stack, factoryCalls >>
       ELSE /\ stack' = [stack EXCEPT ![t] = << [e.frame EXCEPT !.reg = "isolated"] >>]
            /\ factoryCalls' = ZeroFacCalled(factoryCalls, e.frame.regKey)
            /\ UNCHANGED result
    /\ UNCHANGED << mu, isolated, lookups, batch, world, factories, adapters, heap, returned,
                    inserts, reuses >>

\* Both registries are set up, the default one possibly not at all; every
\* get is issued on the isolated one.
IsoNext ==
    \/ Setup({TestTree})
    \/ IsoSetSearchPath(TestTree)
    \/ \E id \in Kinds : IsoRegister(id)
    \/ \E id \in {"adp", "lister-adp"} : IsoNewAdapter("t1", id, << >>)
    \/ Step("t1")

IsoSpec == Init /\ [][IsoNext]_vars

\* C32: while gets are issued on the isolated registry only, every
\* activation, also that of a dependency, is one of the isolated registry,
\* every instance ever stored is in its cache, and the cache of the default
\* registry stays empty.
C32_DependenciesThroughSameRegistry ==
    /\ \A t \in Threads : \A j \in 1..Len(stack[t]) : stack[t][j].reg = "isolated"
    /\ \A i \in DOMAIN heap :
          \E k \in DOMAIN isolated.adapters : isolated.adapters[k] = i
    /\ adapters = EmptyMap

----------------------------------------------------------------------------
(* Item specification: two item files with one header name *)

\* The trees of the item specification: a second inst1.json, whose context
\* is anchored at another directory, or two files that state the name inst3
\* and no context.
ItemWorlds == {[TestTree EXCEPT !.extra = e] : e \in {{"other/inst1"}, {"x/inst3", "y/inst3"}}}

\* The item file each of the two callers asks for, by its full key.
ItemOf(t) ==
    IF "x/inst3" \in world.extra
    THEN (IF t = "t1" THEN "x/inst3" ELSE "y/inst3")
    ELSE (IF t = "t1" THEN "items/inst1" ELSE "other/inst1")

\* The callers take turns: a get starts when no other get is running.
Idle(t) == \A u \in Threads \ {t} : stack[u] = << >>

ItemNext ==
    \/ Setup(ItemWorlds)
    \/ \E t \in Threads :
          /\ world.set /\ Idle(t) /\ result[t] = NoResult
          /\ NewAdapter(t, "adp", << ItemOf(t) >>, MaxItemGets)
    \/ \E t \in Threads : Idle(t) /\ Step(t)

ItemSpec == Init /\ [][ItemNext]_vars

\* C33: when both callers were handed an instance, one for each of two item
\* files that decode to one header name, the two instances differ and each
\* holds the label of its own file.
C33_DistinctFilesDistinctInstances ==
    (/\ result["t1"].inst # 0 /\ result["t2"].inst # 0
     /\ Load(world, ItemOf("t1")).meta.Name = Load(world, ItemOf("t2")).meta.Name) =>
        /\ result["t1"].inst # result["t2"].inst
        /\ \A t \in Threads :
              LET raw == FileAt(world, ItemOf(t)).spec
              IN (~raw.empty /\ "label" \in DOMAIN raw.obj) =>
                    heap[result[t].inst].Spec["label"] = raw.obj["label"]

----------------------------------------------------------------------------
(* Arguments that name no item *)

\* The trees: testdata, and testdata after items/inst1.json was removed.
NoItemWorlds == {[TestTree EXCEPT !.removed = r] : r \in {{}, {"items/inst1"}}}

\* adp takes an item config, lister-adp does not.
NoItemInputs ==
    ({"adp"} \X {<< >>, << "nope" >>, << "nope", "more" >>, << "items/inst1" >>})
    \cup ({"lister-adp"} \X {<< >>, << "nope" >>, << "items/inst1" >>, << "inst2" >>})

NoItemNext ==
    \/ Setup(NoItemWorlds)
    \/ \E in \in NoItemInputs : NewAdapter("t1", in[1], in[2], MaxNoItemGets)
    \/ Step("t1")

NoItemSpec == Init /\ [][NoItemNext]_vars

\* The first argument of an activation gives it no item: the adapter takes
\* no item config, or no file is found or read under that name.
NoItem(fr) ==
    /\ fr.args # << >>
    /\ \/ ~ItemConfigurable(fr.kind)
       \/ Load(world, fr.args[1]).err = "notexist"

\* The key and the context of a get of the adapter of fr without arguments.
PlainKey(fr) ==
    LET id == ToLower(fr.adapterID)
        ctx == IF fr.meta.isNil THEN "" ELSE fr.meta.WorkDir
    IN IF WorkDirSettable(fr.kind) /\ ctx # "" THEN id \o "__" \o Fnv64a(id, ctx) ELSE id

\* C34: an external get whose first argument gives it no item has no item
\* header and the cache key of a get without arguments, whatever the
\* arguments are; and in sequential use the gets that returned under one key
\* returned one instance.
C34_NoItemNoItemPart ==
    /\ \A t \in Threads :
          (stack[t] # << >> /\ NoItem(stack[t][1])) =>
              /\ stack[t][1].itemMeta.isNil
              /\ stack[t][1].regKey = PlainKey(stack[t][1])
    /\ \A t \in Threads :
          (stack[t] # << >> /\ stack[t][1].args = << >>) =>
              stack[t][1].regKey = PlainKey(stack[t][1])
    /\ \A r1, r2 \in returned : r1.key = r2.key => r1.inst = r2.inst

\* A get of adp with an argument that names no file, and one of lister-adp
\* with the name of an item file, is about to find the instance an earlier
\* get put into the cache.
C34_Witness ==
    /\ At("t1", "probe") /\ Len(stack["t1"]) = 1
    /\ Top("t1").args \in {<< "nope", "more" >>, << "items/inst1" >>}
    /\ NoItem(Top("t1"))
    /\ Top("t1").regKey \in DOMAIN adapters
    /\ heap[adapters[Top("t1").regKey]].stage = "ready"
    /\ Count(reuses, Top("t1").regKey) >= 1

----------------------------------------------------------------------------
(* Cache specification: factories replaced while instances are cached *)

\* A registration that also drops the cached instances of the adapter id.
RegisteredEvicting(facs, cache, adapterID, kind) ==
    [factories |-> Put(facs, ToLower(adapterID), kind),
     adapters |-> [k \in {x \in DOMAIN cache : heap[cache[x]].kind # ToLower(adapterID)} |->
                     cache[k]]]

\* Registry.Register, lines 423-427: the two tables after the call.
Registered(facs, cache, adapterID, kind) ==
    [factories |-> Put(facs, ToLower(adapterID), kind), adapters |-> cache]

\* Register with a factory that produces another kind than the id names.
RegisterAs(adapterID, kind) ==
    /\ CanLock(mu)
    /\ mu' = Unlock(Write(Lock(mu, Registrar), Registrar), Registrar)
    /\ factories' = Registered(factories, adapters, adapterID, kind).factories
    /\ adapters' = Registered(factories, adapters, adapterID, kind).adapters
    /\ UNCHANGED << isolated, lookups, batch, world, heap, stack, result, gets, returned,
                    factoryCalls, inserts, reuses >>

CacheNext ==
    \/ Setup({TestTree})
    \/ \E kind \in {"child-adp", "plain-adp"} : RegisterAs("lister-adp", kind)
    \/ \E id \in {"adp", "lister-adp"} : NewAdapter("t1", id, << >>, MaxCacheGets)
    \/ Step("t1")

CacheSpec == Init /\ [][CacheNext]_vars

\* C35: no step of a sequential caller removes a key from the cache or binds
\* it to another instance; a step that changes the factory table changes
\* neither the cache nor an instance; and a get that ends with an instance
\* while its key is in the cache ends with the instance under that key.
C35_CacheOnlyGrows ==
    [][/\ \A k \in DOMAIN adapters : k \in DOMAIN adapters' /\ adapters'[k] = adapters[k]
       /\ factories' # factories => (adapters' = adapters /\ heap' = heap)
       /\ \A t \in Threads :
             (/\ Len(stack[t]) = 1 /\ stack'[t] = << >>
              /\ result'[t].inst # 0
              /\ stack[t][1].regKey \in DOMAIN adapters) =>
                 result'[t].inst = adapters[stack[t][1].regKey]]_vars

\* After the factory of lister-adp was replaced by one for another kind, a
\* get of lister-adp is about to find the instance the first factory made.
C35_Witness ==
    /\ At("t1", "probe") /\ Len(stack["t1"]) = 1
    /\ Top("t1").adapterID = "lister-adp" /\ Top("t1").kind = "child-adp"
    /\ Top("t1").regKey \in DOMAIN adapters
    /\ heap[adapters[Top("t1").regKey]].kind = "lister-adp"
    /\ heap[adapters[Top("t1").regKey]].stage = "ready"

----------------------------------------------------------------------------
(* Validation specification: validateRequiredDeps on struct values *)

\* Struct values of one or two fields, each nil (0) or set (1).
Values(fields) == [{fields[i].name : i \in 1..Len(fields)} -> {0, 1}]

\* validateRequiredDeps called on an adapter of a struct type.
ValidateStruct(fields, values) ==
    /\ gets < MaxValidates
    /\ gets' = gets + 1
    /\ lookups' = lookups \cup
          {[op |-> "validateRequiredDeps", arg |-> fields, values |-> values,
            out |-> validateRequiredDepsOf(fields, values)]}
    /\ UNCHANGED << mu, isolated, world, factories, adapters, heap, stack, result, returned,
                    factoryCalls, inserts, reuses, batch >>

ValidateNext == \E fields \in Structs \ {<< >>} : \E values \in Values(fields) :
                    ValidateStruct(fields, values)

ValidateSpec == Init /\ [][ValidateNext]_vars

\* The fields of a call that are nil and whose tag is the one token
\* "required", by position.
RequiredNil(l) ==
    {i \in 1..Len(l.arg) :
        /\ Len(l.arg[i].tag) = 1 /\ l.arg[i].tag[1] = "required"
        /\ l.values[l.arg[i].name] = 0}

\* C36: the validation fails exactly when a field whose tag is the single
\* token "required" is nil, and names the first such field; a nil field
\* whose tag holds an adapter id next to "required", or "required" in
\* another spelling, does not make it fail.
C36_MandatoryIsSingleTokenRequired ==
    \A l \in lookups : l.op = "validateRequiredDeps" =>
        /\ (l.out.err = "") <=> (RequiredNil(l) = {})
        /\ RequiredNil(l) # {} =>
              /\ l.out.err = "missing required dependency"
              /\ \E i \in RequiredNil(l) :
                    /\ l.out.field = l.arg[i].name
                    /\ \A j \in RequiredNil(l) : i <= j

\* The validation passed a struct whose field A, tagged with an adapter id
\* and "required", is nil, and whose field B, tagged "required", is set.
C36_Witness ==
    \E l \in lookups :
        /\ l.op = "validateRequiredDeps" /\ Len(l.arg) = 2
        /\ l.arg[1].tag = << "child-adp", "required" >> /\ l.values["A"] = 0
        /\ l.arg[2].tag = << "required" >> /\ l.values["B"] = 1
        /\ l.out.err = ""

----------------------------------------------------------------------------
(* Order specification: the iteration order of the merged dependency map *)

\* The trees of the order specification: adp.json declares ListerProvider
\* alone, or also a second key that capitalizes to the same field name and
\* names another adapter.
OrderWorlds ==
    { TestTree,
      [TestTree EXCEPT !.adpDeps = MkMap([ListerProvider |-> DepRef("lister-adp"),
                                          lister_provider |-> DepRef("child-adp")])] }

\* Two items of adp, neither of which declares dependencies of its own.
OrderNext ==
    \/ Setup(OrderWorlds)
    \/ \E item \in {"inst2", "x/inst3"} : NewAdapter("t1", "adp", << item >>, MaxOrderGets)
    \/ Step("t1")

OrderSpec == Init /\ [][OrderNext]_vars

\* The kind of the instance a field holds, "" for nil.
Held(i, n) == IF heap[i].fields[n] = 0 THEN "" ELSE heap[heap[i].fields[n]].kind

\* C37: two instances of adp whose construction ran to its end under one
\* configuration of dependencies hold, in each field, a dependency made by
\* the same adapter: what a field holds is fixed by the configuration and
\* not by the order in which the keys were taken.
C37_InjectionDeterministic ==
    \A i, j \in DOMAIN heap :
        (/\ heap[i].kind = "adp" /\ heap[j].kind = "adp"
         /\ heap[i].nValidate >= 1 /\ heap[j].nValidate >= 1) =>
            \A n \in FieldNames("adp") : Held(i, n) = Held(j, n)

----------------------------------------------------------------------------
(* LoadAll under a filter and files that do not decode *)

\* C38: a LoadAll with an adapter-id filter returns an error and no header
\* when one of the indexed files that are still there does not decode,
\* whichever adapter that file belongs to; when all of them decode it
\* returns without error one header for each file the filter selects, the
\* files that are gone being left out.
C38_FilteredLoadAllFailsOnUndecodable ==
    \A l \in lookups : (l.op = "LoadAll" /\ l.arg # "") =>
        /\ Undecodable # {} => (l.out.err # "" /\ l.out.metas = << >>)
        /\ Undecodable = {} =>
              /\ l.out.err = ""
              /\ Len(l.out.metas) = Cardinality(Selected(l.arg))
              /\ \A k \in Indexed \cap world.removed :
                    \A i \in 1..Len(l.out.metas) :
                        l.out.metas[i] # LoadFile(Files(world)[k], contextMap(world)).meta

\* A call filtered by child-adp failed and returned nothing, because
\* items/inst2.json, a file of adp, does not decode, while a config of
\* child-adp is indexed and a file of adp is gone.
C38_Witness ==
    /\ world.set /\ world.broken = {"items/inst2"} /\ "x/child-adp" \in world.extra
    /\ world.removed = {"items/inst1"}
    /\ \E l \in lookups : /\ l.op = "LoadAll" /\ l.arg = "child-adp"
                           /\ l.out.err # "" /\ l.out.metas = << >>

====
